---- MODULE Spec2Model ----
(***************************************************************************)
(* Measurement pipeline of xfit: MeasurementEngine (scale calibration,     *)
(* geometry extraction, circumference estimation, anthropometric          *)
(* correction, confidence scoring) and AccuracyEngine (ensemble           *)
(* averaging).                                                             *)
(*                                                                         *)
(* Number representation.  The code computes in IEEE doubles; the model    *)
(* computes in exact integer fixed point:                                  *)
(*   - normalized landmark coordinates in thousandths (0..1000),           *)
(*   - landmark visibility and capture confidence in hundredths,           *)
(*   - pixel positions and distances in tenths of a pixel,                 *)
(*   - the scale factor (cm per pixel) as a reduced fraction n/d,          *)
(*   - measurements in tenths of a centimetre (the code rounds every       *)
(*     measurement to one decimal), unrounded widths in hundredths,        *)
(*   - anthropometric ratios and their deviations in thousandths.          *)
(* A JavaScript number that may be NaN or +-Infinity is a record           *)
(* [k |-> "fin" | "nan" | "inf", v |-> value or sign].                     *)
(* Pixel lengths are cut to their grid, so a measurement of the pipeline   *)
(* can sit 0.1 cm off the double the code computes; signs, zeros, NaN and  *)
(* Infinity are those of the code.                                         *)
(* ensembleAverage works on measurements given in hundredths of a cm and   *)
(* is computed exactly.                                                    *)
(***************************************************************************)
EXTENDS Integers, Sequences, FiniteSets, TLC

VARIABLES
  captures,      \* CaptureAngle[] handed to the last pipeline call
  calibration,   \* CalibrationReference | null of that call
  knownHeight,   \* number | null of that call
  gender,        \* 'male' | 'female' | 'other'
  outcome,       \* what the call did: nothing yet, a MeasurementResult, or a throw
  corrIn,        \* input of the last applyAnthropometricCorrection call
  corrOut,       \* its output (corrected measurements and pushed warnings)
  corrAgain,     \* output of a second pass of the correction over corrOut
  results,       \* MeasurementResult[] collected for ensembleAverage
  ensemble,      \* what ensembleAverage did with them
  history,       \* BodyMeasurement[] kept of the user's earlier scans
  detection,     \* the last detectOutlier call: its arguments and what it returned
  report,        \* the last analyzeAccuracy call: its arguments and its AccuracyReport
  created,       \* the last createCalibration call: its arguments and its reference
  scores,        \* calculateConfidenceScores calls: arguments and confidences
  calls,         \* calculateFromMultiAngle calls made with the same arguments
  ellipse,       \* the last ellipseCircumference call: its arguments and its value
  processor,     \* the PoseProcessor singleton: apiKey configured, isCloudAvailable
  poseCalls,     \* processImage calls: position in the method, stages tried, result
  store,         \* the measurement store: measurements, currentMeasurement, isLoading, error
  persisted,     \* AsyncStorage's value under '@tailorx:measurements'
  adds           \* addMeasurement calls: position in the method and local list

pipelineVars == <<captures, calibration, knownHeight, gender, outcome>>
correctionVars == <<corrIn, corrOut, corrAgain>>
ensembleVars == <<results, ensemble>>
accuracyVars == <<history, detection, report>>

poseVars == <<processor, poseCalls>>
storeVars == <<store, persisted, adds>>
serviceVars == <<ellipse, poseVars, storeVars>>

vars == <<pipelineVars, correctionVars, ensembleVars, accuracyVars, created, scores, calls,
          serviceVars>>

-----------------------------------------------------------------------------
(* JavaScript values *)

None == <<>>
Some(v) == <<v>>
IsSome(o) == o # <<>>

Fin(v) == [k |-> "fin", v |-> v]
NaN == [k |-> "nan", v |-> 0]
PosInf == [k |-> "inf", v |-> 1]
NegInf == [k |-> "inf", v |-> -1]
IsFin(a) == a.k = "fin"

Abs(x) == IF x < 0 THEN -x ELSE x
Sgn(x) == IF x > 0 THEN 1 ELSE IF x < 0 THEN -1 ELSE 0
MinOf(a, b) == IF a <= b THEN a ELSE b
MaxOf(a, b) == IF a >= b THEN a ELSE b
SetMin(S) == CHOOSE x \in S : \A y \in S : x <= y
SetMax(S) == CHOOSE x \in S : \A y \in S : x >= y

RECURSIVE Gcd(_, _)
Gcd(a, b) == IF b = 0 THEN a ELSE Gcd(b, a % b)

\* Math.round of the fraction n/d, d > 0: the nearest integer, ties upward.
RoundDiv(n, d) == (2 * n + d) \div (2 * d)

RECURSIVE SqrtSearch(_, _, _)
SqrtSearch(n, lo, hi) ==
  IF lo >= hi THEN lo
  ELSE LET mid == (lo + hi + 1) \div 2
       IN IF mid * mid <= n THEN SqrtSearch(n, mid, hi)
          ELSE SqrtSearch(n, lo, mid - 1)

\* Math.sqrt on a non-negative integer, rounded down.
ISqrt(n) == SqrtSearch(n, 0, MinOf(n, 46340))

RECURSIVE SumSeq(_)
SumSeq(s) == IF s = <<>> THEN 0 ELSE Head(s) + SumSeq(Tail(s))

\* A fraction n/d with d >= 0 in lowest terms; d = 0 is what a JavaScript
\* division by zero leaves: +-Infinity (n # 0) or NaN (n = 0).
Frac(n, d) ==
  LET s == IF d < 0 THEN -1 ELSE 1
      g == Gcd(Abs(n), Abs(d))
  IN IF g = 0 THEN [n |-> 0, d |-> 0]
     ELSE [n |-> (s * n) \div g, d |-> (s * d) \div g]

\* 1 / f, as the code inverts pixelsPerCm.
FracInv(f) == Frac(f.d, f.n)

\* a * n = q * d + r with 0 <= r < d, for a, n >= 0 and d > 0, by doubling, so
\* that no intermediate product exceeds 32 bits.
RECURSIVE MulDivMod(_, _, _)
MulDivMod(a, n, d) ==
  IF a = 0 THEN [q |-> 0, r |-> 0]
  ELSE LET half == MulDivMod(a \div 2, n, d)
           rest == 2 * half.r + (a % 2) * (n % d)
       IN [q |-> 2 * half.q + (a % 2) * (n \div d) + rest \div d,
           r |-> rest % d]

\* Math.round(a * f) for an integer a and a fraction f, as a number.
\* a * (n/0) is NaN for a = 0 and an infinity of the product's sign otherwise.
MulFrac(a, f) ==
  IF f.d = 0
  THEN IF f.n = 0 \/ a = 0 THEN NaN
       ELSE IF Sgn(a) * Sgn(f.n) > 0 THEN PosInf ELSE NegInf
  ELSE LET m == MulDivMod(Abs(a), Abs(f.n), f.d)
       IN IF Sgn(a) * Sgn(f.n) >= 0
          THEN Fin(m.q + (IF 2 * m.r >= f.d THEN 1 ELSE 0))
          ELSE Fin(-(m.q + (IF 2 * m.r > f.d THEN 1 ELSE 0)))

-----------------------------------------------------------------------------
(* Constants of the engine *)

\* Fallback reference height in cm when nothing calibrates the scale.
AverageAdultHeightCm == 170

Genders == {"male", "female", "other"}

\* ANTHROPOMETRIC_RATIOS, in thousandths of the height.
ANTHROPOMETRIC_RATIOS ==
  [male   |-> [chest |-> 520, waist |-> 440, hips |-> 530, shoulders |-> 259,
               neck |-> 215, sleeve |-> 365, inseam |-> 450, thigh |-> 330,
               calf |-> 210],
   female |-> [chest |-> 510, waist |-> 420, hips |-> 565, shoulders |-> 243,
               neck |-> 195, sleeve |-> 345, inseam |-> 450, thigh |-> 340,
               calf |-> 210],
   other  |-> [chest |-> 515, waist |-> 430, hips |-> 548, shoulders |-> 251,
               neck |-> 205, sleeve |-> 355, inseam |-> 450, thigh |-> 335,
               calf |-> 210]]

\* RATIO_STDDEV, in thousandths.
RATIO_STDDEV ==
  [chest |-> 40, waist |-> 50, hips |-> 40, shoulders |-> 15, neck |-> 15,
   sleeve |-> 20, inseam |-> 25, thigh |-> 30, calf |-> 20]

\* The keys the correction checks, in the order of its checks array.
CheckKeys ==
  <<"chest", "waist", "hips", "shoulders", "neck", "sleeve", "inseam",
    "thigh", "calf">>

CircumferenceKeys == {"chest", "waist", "hips", "neck", "thigh", "calf"}

\* The keys of MeasurementResult.measurements and .confidence.
MeasurementKeys ==
  {"height", "shoulders", "sleeve", "inseam",
   "chest", "waist", "hips", "neck", "thigh", "calf"}

\* BLAZEPOSE_LANDMARKS: name -> index (0-based, as in the code).
BLAZEPOSE_LANDMARKS ==
  [nose |-> 0, left_shoulder |-> 11, right_shoulder |-> 12,
   left_elbow |-> 13, right_elbow |-> 14, left_wrist |-> 15,
   right_wrist |-> 16, left_hip |-> 23, right_hip |-> 24,
   left_knee |-> 25, right_knee |-> 26, left_ankle |-> 27,
   right_ankle |-> 28, left_heel |-> 29, right_heel |-> 30,
   left_foot_index |-> 31, right_foot_index |-> 32]

\* The warnings the engine pushes, as <<text, measurement key>>.
WarnEstimatedScale ==
  <<"No calibration reference provided - using estimated scale. Accuracy will be reduced.",
    "">>
WarnNoSideView ==
  <<"Side view not provided - circumferences estimated from front view only. Add side photo for +-2cm accuracy.",
    "">>
\* `${key} measurement (${measured.toFixed(1)}cm) is a statistical outlier.
\* Applying correction.`, kept as the key it names.
WarnOutlier(key) == <<"is a statistical outlier", key>>

-----------------------------------------------------------------------------
(* Landmarks and captures *)

Lm(name, x, y, vis) ==
  [name |-> name, x |-> x, y |-> y, z |-> 0, visibility |-> vis]

FrontLandmarks ==
  << Lm("nose", 500, 80, 95),
     Lm("left_eye_inner", 490, 75, 90),
     Lm("left_eye", 480, 75, 90),
     Lm("left_eye_outer", 470, 75, 90),
     Lm("right_eye_inner", 510, 75, 90),
     Lm("right_eye", 520, 75, 90),
     Lm("right_eye_outer", 530, 75, 90),
     Lm("left_ear", 440, 85, 85),
     Lm("right_ear", 560, 85, 85),
     Lm("mouth_left", 480, 100, 85),
     Lm("mouth_right", 520, 100, 85),
     Lm("left_shoulder", 370, 200, 95),
     Lm("right_shoulder", 630, 200, 95),
     Lm("left_elbow", 320, 350, 90),
     Lm("right_elbow", 680, 350, 90),
     Lm("left_wrist", 300, 470, 88),
     Lm("right_wrist", 700, 470, 88),
     Lm("left_pinky", 290, 490, 80),
     Lm("right_pinky", 710, 490, 80),
     Lm("left_index", 290, 500, 80),
     Lm("right_index", 710, 500, 80),
     Lm("left_thumb", 310, 480, 80),
     Lm("right_thumb", 690, 480, 80),
     Lm("left_hip", 420, 520, 95),
     Lm("right_hip", 580, 520, 95),
     Lm("left_knee", 430, 720, 90),
     Lm("right_knee", 570, 720, 90),
     Lm("left_ankle", 430, 890, 90),
     Lm("right_ankle", 570, 890, 90),
     Lm("left_heel", 420, 910, 85),
     Lm("right_heel", 580, 910, 85),
     Lm("left_foot_index", 440, 930, 85),
     Lm("right_foot_index", 560, 930, 85) >>

SideLandmarks ==
  << Lm("nose", 500, 80, 90),
     Lm("left_eye_inner", 490, 75, 70),
     Lm("left_eye", 480, 75, 70),
     Lm("left_eye_outer", 470, 75, 70),
     Lm("right_eye_inner", 510, 75, 70),
     Lm("right_eye", 520, 75, 70),
     Lm("right_eye_outer", 530, 75, 70),
     Lm("left_ear", 440, 85, 70),
     Lm("right_ear", 560, 85, 30),
     Lm("mouth_left", 480, 100, 70),
     Lm("mouth_right", 520, 100, 50),
     Lm("left_shoulder", 450, 200, 90),
     Lm("right_shoulder", 550, 200, 85),
     Lm("left_elbow", 400, 350, 85),
     Lm("right_elbow", 600, 350, 50),
     Lm("left_wrist", 380, 470, 80),
     Lm("right_wrist", 620, 470, 40),
     Lm("left_pinky", 370, 490, 60),
     Lm("right_pinky", 630, 490, 30),
     Lm("left_index", 370, 500, 60),
     Lm("right_index", 630, 500, 30),
     Lm("left_thumb", 390, 480, 60),
     Lm("right_thumb", 610, 480, 30),
     Lm("left_hip", 450, 520, 90),
     Lm("right_hip", 550, 520, 85),
     Lm("left_knee", 470, 720, 85),
     Lm("right_knee", 530, 720, 80),
     Lm("left_ankle", 470, 890, 85),
     Lm("right_ankle", 530, 890, 85),
     Lm("left_heel", 460, 910, 80),
     Lm("right_heel", 540, 910, 80),
     Lm("left_foot_index", 480, 930, 80),
     Lm("right_foot_index", 520, 930, 80) >>

\* The test's capture with exaggerated shoulder width.
WideLm(l) ==
  IF l.name = "left_shoulder" THEN [l EXCEPT !.x = 100]
  ELSE IF l.name = "right_shoulder" THEN [l EXCEPT !.x = 900]
  ELSE l

\* Shoulders a little broader than the population ratio expects.
BroadLm(l) ==
  IF l.name = "left_shoulder" THEN [l EXCEPT !.x = 260]
  ELSE IF l.name = "right_shoulder" THEN [l EXCEPT !.x = 740]
  ELSE l

\* Every point detected at the centre of the frame.
CollapsedLm(l) == [l EXCEPT !.x = 500, !.y = 500]

\* The subject upside down in the frame.
InvertedLm(l) == [l EXCEPT !.y = 1000 - l.y]

\* A detector that reports positions by index only.
UnnamedLm(l) == [l EXCEPT !.name = ""]

FrontPostures ==
  [standing  |-> FrontLandmarks,
   wide      |-> [i \in DOMAIN FrontLandmarks |-> WideLm(FrontLandmarks[i])],
   broad     |-> [i \in DOMAIN FrontLandmarks |-> BroadLm(FrontLandmarks[i])],
   collapsed |-> [i \in DOMAIN FrontLandmarks |-> CollapsedLm(FrontLandmarks[i])],
   inverted  |-> [i \in DOMAIN FrontLandmarks |-> InvertedLm(FrontLandmarks[i])],
   unnamed   |-> [i \in DOMAIN FrontLandmarks |-> UnnamedLm(FrontLandmarks[i])],
   empty     |-> <<>>]

SidePostures ==
  [standing  |-> SideLandmarks,
   collapsed |-> [i \in DOMAIN SideLandmarks |-> CollapsedLm(SideLandmarks[i])]]

ImageWidth == 720
ImageHeight == 1280

\* Capture confidences the detector may report, in hundredths.
ConfidenceLevels == {0, 10, 90, 100}

Capture(type, lms, conf) ==
  [type |-> type, landmarks |-> lms, imageWidth |-> ImageWidth,
   imageHeight |-> ImageHeight, confidence |-> Frac(conf, 100)]

\* A lookup that takes the first capture whatever its type.
FindCaptureFirst(caps, type) == IF caps = <<>> THEN None ELSE Some(caps[1])

\* captures.find(c => c.type === type)
FindCapture(caps, type) ==
  LET I == {i \in DOMAIN caps : caps[i].type = type}
  IN IF I = {} THEN None ELSE Some(caps[SetMin(I)])

\* landmarks.find(l => l.name === name)
FindNamed(lms, name) ==
  LET I == {i \in DOMAIN lms : lms[i].name = name}
  IN IF I = {} THEN None ELSE Some(lms[SetMin(I)])

\* findLandmark: by name, else by index, else a zero-visibility centre point.
findLandmark(lms, name) ==
  LET byName == FindNamed(lms, name)
      index == BLAZEPOSE_LANDMARKS[name]
  IN IF IsSome(byName) THEN byName[1]
     ELSE IF index < Len(lms) THEN lms[index + 1]
     ELSE [name |-> name, x |-> 500, y |-> 500, z |-> 0, visibility |-> 0]

\* getTopOfHead.  y is in ten-thousandths of the frame height (0.6 of a
\* distance in thousandths).  landmarks[0] of an empty list is undefined
\* and reading its .x throws a TypeError.
getTopOfHead(lms) ==
  LET byName == FindNamed(lms, "nose")
      leftShoulder == FindNamed(lms, "left_shoulder")
  IN IF ~IsSome(byName) /\ Len(lms) = 0 THEN [threw |-> TRUE, x |-> 0, y |-> 0]
     ELSE LET nose == IF IsSome(byName) THEN byName[1] ELSE lms[1]
              dist6 == IF IsSome(leftShoulder)
                       THEN Abs(leftShoulder[1].y - nose.y) * 6
                       ELSE 300
          IN [threw |-> FALSE, x |-> nose.x, y |-> nose.y * 10 - dist6]

FootNames ==
  <<"left_heel", "right_heel", "left_foot_index", "right_foot_index",
    "left_ankle", "right_ankle">>

\* getBottomOfFeet.  y in thousandths, x the mean of the candidates.
getBottomOfFeet(lms) ==
  LET idx == {i \in DOMAIN FootNames : IsSome(FindNamed(lms, FootNames[i]))}
      at(i) == FindNamed(lms, FootNames[i])[1]
  IN IF idx = {} THEN [x |-> Frac(500, 1), y |-> 950]
     ELSE [x |-> Frac(SumSeq([i \in DOMAIN FootNames |->
                                IF i \in idx THEN at(i).x ELSE 0]),
                      Cardinality(idx)),
           y |-> SetMax({at(i).y : i \in idx})]

\* |feetBottom.y - headTop.y| * imageHeight, in ten-thousandths of a pixel.
HeadToFootExtent(cap) ==
  Abs(getBottomOfFeet(cap.landmarks).y * 10 - getTopOfHead(cap.landmarks).y)
    * cap.imageHeight

\* The three sources of the scale factor (cm per pixel), each with the
\* warnings it pushes and whether it threw.  calibration and knownHeight are
\* None (null) or Some(value); pixel sizes are in hundredths of a pixel, real
\* sizes in thousandths of a cm.

\* Priority 1: pixelsPerCm = pixelWidth / realWidthCm, scale = 1 / pixelsPerCm.
ScaleFromReference(calib) ==
  [threw |-> FALSE,
   scale |-> FracInv(Frac(calib.pixelWidth * 10, calib.realWidthCm)),
   warnings |-> <<>>]

\* Priority 3: the average adult height over the head-to-foot extent, or 1
\* without a front capture.
ScaleEstimated(front) ==
  IF IsSome(front)
  THEN IF getTopOfHead(front[1].landmarks).threw
       THEN [threw |-> TRUE, scale |-> Frac(0, 0),
             warnings |-> <<WarnEstimatedScale>>]
       ELSE [threw |-> FALSE,
             scale |-> Frac(AverageAdultHeightCm * 10000, HeadToFootExtent(front[1])),
             warnings |-> <<WarnEstimatedScale>>]
  ELSE [threw |-> FALSE, scale |-> Frac(1, 1), warnings |-> <<WarnEstimatedScale>>]

\* Priority 2: knownHeight over the head-to-foot extent when that is positive;
\* control falls through to priority 3 when it is not.
ScaleFromKnownHeight(front, known) ==
  IF getTopOfHead(front[1].landmarks).threw
  THEN [threw |-> TRUE, scale |-> Frac(0, 0), warnings |-> <<>>]
  ELSE IF HeadToFootExtent(front[1]) > 0
  THEN [threw |-> FALSE,
        scale |-> Frac(known * 10000, HeadToFootExtent(front[1])),
        warnings |-> <<>>]
  ELSE ScaleEstimated(front)

\* A computeScaleFactor that lets a known height take precedence over a
\* reference object.
computeScaleFactorKnownHeightFirst(caps, calib, known) ==
  LET front == FindCapture(caps, "front")
  IN IF IsSome(known) /\ known[1] # 0 /\ IsSome(front)
     THEN ScaleFromKnownHeight(front, known[1])
     ELSE IF IsSome(calib) THEN ScaleFromReference(calib[1])
     ELSE ScaleEstimated(front)

\* computeScaleFactor.
computeScaleFactor(caps, calib, known) ==
  LET front == FindCapture(caps, "front")
  IN IF IsSome(calib) THEN ScaleFromReference(calib[1])
     ELSE IF IsSome(known) /\ known[1] # 0 /\ IsSome(front)
     THEN ScaleFromKnownHeight(front, known[1])
     ELSE ScaleEstimated(front)

-----------------------------------------------------------------------------
(* Geometry *)

\* px(): a landmark in tenths of a pixel.
px(l, cap) ==
  [x |-> (l.x * cap.imageWidth) \div 100, y |-> (l.y * cap.imageHeight) \div 100]

Pt(x, y) == [x |-> x, y |-> y]

\* distance2D, in tenths of a pixel.
distance2D(p1, p2) ==
  ISqrt((p2.x - p1.x) * (p2.x - p1.x) + (p2.y - p1.y) * (p2.y - p1.y))

\* Math.round(a * scale / div): a pixel quantity times the scale factor.
Scaled(a, scale, div) == MulFrac(a, [n |-> scale.n, d |-> scale.d * div])

\* calculateFrontViewMeasurements.  height, shoulderWidth, sleeveLength and
\* inseam are rounded to tenths of a cm; frontWidths are the unrounded
\* products, kept in hundredths of a cm.
calculateFrontViewMeasurements(cap, scale) ==
  LET lm == cap.landmarks
      P(name) == px(findLandmark(lm, name), cap)
      orElse(name, other) ==
        IF IsSome(FindNamed(lm, name)) THEN FindNamed(lm, name)[1]
        ELSE findLandmark(lm, other)
      nose == findLandmark(lm, "nose")
      \* 0.6 of the nose-to-shoulder pixel distance, in hundredths of a pixel
      headOffset == distance2D(P("nose"), P("left_shoulder")) * 6
      feetBottomY == SetMax({orElse("left_heel", "left_ankle").y,
                             orElse("right_heel", "right_ankle").y,
                             orElse("left_foot_index", "left_ankle").y,
                             orElse("right_foot_index", "right_ankle").y})
      \* (feetBottomY - headTopY) * imgH, in hundredths of a pixel
      heightPixels == ((feetBottomY - nose.y) * cap.imageHeight) \div 10 + headOffset
      shoulderDist == distance2D(P("left_shoulder"), P("right_shoulder"))
      hipDist == distance2D(P("left_hip"), P("right_hip"))
      leftSleevePixels == distance2D(P("left_shoulder"), P("left_elbow"))
                          + distance2D(P("left_elbow"), P("left_wrist"))
      rightSleevePixels == distance2D(P("right_shoulder"), P("right_elbow"))
                           + distance2D(P("right_elbow"), P("right_wrist"))
      crotchY == ((findLandmark(lm, "left_hip").y + findLandmark(lm, "right_hip").y
                   + 40) * cap.imageHeight) \div 200
      leftInseamPixels == distance2D(Pt(P("left_hip").x, crotchY), P("left_knee"))
                          + distance2D(P("left_knee"), P("left_ankle"))
      rightInseamPixels == distance2D(Pt(P("right_hip").x, crotchY), P("right_knee"))
                           + distance2D(P("right_knee"), P("right_ankle"))
      thighDist == distance2D(
        Pt(P("left_hip").x, (P("left_hip").y + P("left_knee").y) \div 2),
        Pt(P("right_hip").x, (P("right_hip").y + P("right_knee").y) \div 2))
      calfDist == distance2D(
        Pt(P("left_knee").x, (P("left_knee").y + P("left_ankle").y) \div 2),
        Pt(P("right_knee").x, (P("right_knee").y + P("right_ankle").y) \div 2))
  IN [height |-> Scaled(heightPixels, scale, 10),
      shoulderWidth |-> Scaled(shoulderDist * 105, scale, 100),
      sleeveLength |-> Scaled(leftSleevePixels + rightSleevePixels, scale, 2),
      inseam |-> Scaled(leftInseamPixels + rightInseamPixels, scale, 2),
      frontWidths |->
        [chest |-> Scaled(shoulderDist * 95, scale, 10),
         waist |-> Scaled(hipDist * 110, scale, 10),
         hips  |-> Scaled(hipDist * 115, scale, 10),
         neck  |-> Scaled(shoulderDist * 22, scale, 10),
         thigh |-> Scaled(thighDist * 45, scale, 10),
         calf  |-> Scaled(calfDist * 45, scale, 10)]]

\* calculateSideViewMeasurements: side depths in hundredths of a cm.
calculateSideViewMeasurements(cap, scale) ==
  LET lm == cap.landmarks
      P(name) == px(findLandmark(lm, name), cap)
      chestDepth == distance2D(P("left_shoulder"), P("right_shoulder"))
      waistDepth == distance2D(P("left_hip"), P("right_hip"))
      thighDepth == distance2D(
        Pt(P("left_hip").x, (P("left_hip").y + P("left_knee").y) \div 2),
        Pt(P("right_hip").x, (P("right_hip").y + P("right_knee").y) \div 2))
  IN [sideDepths |->
        [chest |-> Scaled(chestDepth * 100, scale, 10),
         waist |-> Scaled(waistDepth * 100, scale, 10),
         hips  |-> Scaled(waistDepth * 115, scale, 10),
         thigh |-> Scaled(thighDepth * 100, scale, 10),
         calf  |-> Scaled(thighDepth * 55, scale, 10),
         neck  |-> Scaled(chestDepth * 30, scale, 10)]]

\* Ramanujan's formula in stages, each stage computed once and handed on as
\* a value.  For semi-axes whose sum is s and whose difference is delta
\* (0 <= delta <= s, s > 0):

\* h = delta^2 / s^2 in units of 1/4e8.
RamanujanRatio(s, delta) ==
  LET k == (s \div 26000) + 1
      sk == s \div k
      dk == delta \div k
  IN MulDivMod(dk * dk, 400000000, sk * sk).q

\* 3h / (10 + sqrt(4 - 3h)) in ten-millionths, the root in units of 1/20000.
RamanujanOfRatio(h) ==
  CHOOSE t \in {MulDivMod(3 * h, 500, 200000 + root).q :
                  root \in {ISqrt(1600000000 - 3 * h)}} : TRUE

\* The factor 1 + 3h / (10 + sqrt(4 - 3h)) of Ramanujan's formula less 1, in
\* ten-millionths.
RamanujanTerm(s, delta) ==
  CHOOSE t \in {RamanujanOfRatio(h) : h \in {RamanujanRatio(s, delta)}} : TRUE

\* u * pi / 2 for u in thousandths of a cm, rounded to tenths of a cm, with
\* pi = 355/113.
HalfPiTenths(u) ==
  LET m == MulDivMod(u, 355, 2260000)
  IN m.q + (IF 2 * m.r >= 2260000 THEN 1 ELSE 0)

\* A circumference formula that takes the cross-section for a circle of
\* diameter (w + d) / 2.
EllipseTenthsCircular(s, delta) ==
  HalfPiTenths(s * 1000)

\* Math.PI * (a + b) * (1 + 3h / (10 + Math.sqrt(4 - 3h))) in tenths of a
\* cm, rounded, for s = 2 (a + b) and delta = 2 |a - b| in hundredths of a
\* cm.
EllipseTenths(s, delta) ==
  CHOOSE c \in {HalfPiTenths(u) :
                  u \in {MulDivMod(s, 10000000 + term, 10000).q :
                           term \in {RamanujanTerm(s, delta)}}} : TRUE

\* ellipseCircumference(w / 2, d / 2) for a front width w and a side depth d
\* in hundredths of a cm; the result is rounded to tenths of a cm.
\* A non-finite operand, or a + b = 0 (h = 0/0), gives NaN.
ellipseCircumference(w, d) ==
  IF ~IsFin(w) \/ ~IsFin(d) THEN NaN
  ELSE IF w.v + d.v = 0 THEN NaN
  ELSE Fin(Sgn(w.v + d.v) * EllipseTenths(Abs(w.v + d.v), Abs(w.v - d.v)))

\* this.round(height * ratio): a ratio in thousandths of a number in tenths.
TimesRatio(x, ratio) ==
  IF IsFin(x) THEN Fin(RoundDiv(x.v * ratio, 1000)) ELSE x

\* A ratio fallback that pushes no warning.
calculateCircumferencesSilent(front, side, g) ==
  IF IsSome(side)
  THEN [values |-> [k \in CircumferenceKeys |->
                      ellipseCircumference(front.frontWidths[k],
                                           side[1].sideDepths[k])],
        warnings |-> <<>>]
  ELSE [values |-> [k \in CircumferenceKeys |->
                      TimesRatio(front.height, ANTHROPOMETRIC_RATIOS[g][k])],
        warnings |-> <<>>]

\* calculateCircumferences.
calculateCircumferences(front, side, g) ==
  IF IsSome(side)
  THEN [values |-> [k \in CircumferenceKeys |->
                      ellipseCircumference(front.frontWidths[k],
                                           side[1].sideDepths[k])],
        warnings |-> <<>>]
  ELSE [values |-> [k \in CircumferenceKeys |->
                      TimesRatio(front.height, ANTHROPOMETRIC_RATIOS[g][k])],
        warnings |-> <<WarnNoSideView>>]

-----------------------------------------------------------------------------
(* Anthropometric correction *)

\* The guard `!x || x <= 0`: NaN, zero, a negative number or -Infinity.
FalsyOrNonPositive(x) ==
  \/ x.k = "nan"
  \/ x.k = "fin" /\ x.v <= 0
  \/ x.k = "inf" /\ x.v < 0

\* A comparison whose thresholds sit one standard deviation lower.
ZScoreAboveLowered(m, h, ratio, sd, t, roundsUp) ==
  IF IsFin(h) /\ IsFin(m)
  THEN Abs(1000 * m.v - ratio * h.v) > (t - 1) * sd * h.v
  ELSE TRUE

\* zScore > t, with zScore = |measured/height - ratio| / stdDev and the ratio
\* and stdDev in thousandths: |1000 m - ratio h| > t stdDev h for finite
\* operands.  The code computes zScore in double arithmetic: when the exact
\* quotient equals t, the computed one is t or a last-place unit next to it
\* (|29/100 - 0.44| / 0.05 computes to 3.0000000000000004), and roundsUp says
\* whether it lands above.  An infinite measured value gives an infinite
\* zScore, an infinite height the zScore ratio/stdDev, both infinite a NaN
\* zScore.
ZScoreAbove(m, h, ratio, sd, t, roundsUp) ==
  IF IsFin(h) /\ IsFin(m)
  THEN \/ Abs(1000 * m.v - ratio * h.v) > t * sd * h.v
       \/ Abs(1000 * m.v - ratio * h.v) = t * sd * h.v /\ roundsUp
  ELSE IF IsFin(h) THEN TRUE
  ELSE IF IsFin(m) THEN ratio > t * sd
  ELSE FALSE

\* A blend that goes past the expected value: 2 expected - measured.
BlendBeyond(m, h, ratio, wm, we) ==
  IF IsFin(h) /\ IsFin(m)
  THEN Fin(RoundDiv(2 * ratio * h.v - 1000 * m.v, 1000))
  ELSE PosInf

\* this.round(measured * wm + expected * we), the weights in tenths and
\* expected = height * ratio.
Blend(m, h, ratio, wm, we) ==
  IF IsFin(h) /\ IsFin(m)
  THEN Fin(RoundDiv(1000 * wm * m.v + we * ratio * h.v, 10000))
  ELSE PosInf

\* A loop body whose thresholds are inclusive (zScore >= 3, zScore >= 2).
CorrectKeyInclusive(m, h, ratio, sd, roundsUp) ==
  IF FalsyOrNonPositive(m) THEN [value |-> m, warned |-> FALSE]
  ELSE IF ZScoreAbove(m, h, ratio, sd, 3, TRUE)
  THEN [value |-> Blend(m, h, ratio, 4, 6), warned |-> TRUE]
  ELSE IF ZScoreAbove(m, h, ratio, sd, 2, TRUE)
  THEN [value |-> Blend(m, h, ratio, 8, 2), warned |-> FALSE]
  ELSE [value |-> m, warned |-> FALSE]

\* One iteration of the loop over checks: the new value of the key and
\* whether a warning was pushed.
CorrectKey(m, h, ratio, sd, roundsUp) ==
  IF FalsyOrNonPositive(m) THEN [value |-> m, warned |-> FALSE]
  ELSE IF ZScoreAbove(m, h, ratio, sd, 3, roundsUp)
  THEN [value |-> Blend(m, h, ratio, 4, 6), warned |-> TRUE]
  ELSE IF ZScoreAbove(m, h, ratio, sd, 2, roundsUp)
  THEN [value |-> Blend(m, h, ratio, 8, 2), warned |-> FALSE]
  ELSE [value |-> m, warned |-> FALSE]

RECURSIVE OutlierWarnings(_, _, _, _, _)
OutlierWarnings(ms, g, roundsUp, i, acc) ==
  IF i > Len(CheckKeys) THEN acc
  ELSE LET key == CheckKeys[i]
           c == CorrectKey(ms[key], ms.height, ANTHROPOMETRIC_RATIOS[g][key],
                           RATIO_STDDEV[key], roundsUp)
       IN OutlierWarnings(ms, g, roundsUp, i + 1,
                          IF c.warned THEN Append(acc, WarnOutlier(key)) ELSE acc)

\* applyAnthropometricCorrection: the corrected copy and the warnings pushed.
applyAnthropometricCorrection(ms, g, roundsUp) ==
  IF FalsyOrNonPositive(ms.height) THEN [values |-> ms, warnings |-> <<>>]
  ELSE [values |->
          [k \in DOMAIN ms |->
             IF k = "height" THEN ms[k]
             ELSE CorrectKey(ms[k], ms.height, ANTHROPOMETRIC_RATIOS[g][k],
                             RATIO_STDDEV[k], roundsUp).value],
        warnings |-> OutlierWarnings(ms, g, roundsUp, 1, <<>>)]

-----------------------------------------------------------------------------
(* Confidence scoring *)

FracAdd(a, b) == Frac(a.n * b.d + b.n * a.d, a.d * b.d)

RECURSIVE SumConfidence(_)
SumConfidence(caps) ==
  IF caps = <<>> THEN Frac(0, 1)
  ELSE FracAdd(Head(caps).confidence, SumConfidence(Tail(caps)))

\* avgConfidence * 100 * 0.7 lies exactly halfway between two integers.
BaseConfidenceIsHalfway(caps) ==
  LET s == SumConfidence(caps)
  IN (2 * 70 * s.n) % (2 * s.d * Len(caps)) = s.d * Len(caps)

\* How Math.round may see a product that is exactly halfway: the double is
\* the half itself or the double just below it (0.45 * 100 * 0.7 computes to
\* 31.499999999999996, 0.95 * 100 * 0.7 to 66.5).
HalfRoundings(caps) ==
  IF caps # <<>> /\ BaseConfidenceIsHalfway(caps) THEN BOOLEAN ELSE {TRUE}

\* getBaseConfidence: Math.round(avgConfidence * 100 * 0.7); halfUp says
\* whether a halfway product reached Math.round as the half.
getBaseConfidence(caps, halfUp) ==
  IF Len(caps) = 0 THEN 50
  ELSE LET s == SumConfidence(caps)
           rounded == RoundDiv(70 * s.n, s.d * Len(caps))
       IN IF BaseConfidenceIsHalfway(caps) /\ ~halfUp THEN rounded - 1 ELSE rounded

\* The per-key cap and offset of calculateConfidenceScores.
ConfidenceCap ==
  [height |-> 98, shoulders |-> 95, sleeve |-> 92, inseam |-> 90,
   chest |-> 95, waist |-> 95, hips |-> 95, neck |-> 90, thigh |-> 88,
   calf |-> 85]
ConfidenceOffset ==
  [height |-> 5, shoulders |-> 0, sleeve |-> -3, inseam |-> -5,
   chest |-> -5, waist |-> -5, hips |-> -5, neck |-> -8, thigh |-> -10,
   calf |-> -12]

CalibrationBonus(hasCalibration) == IF hasCalibration THEN 10 ELSE 0
\* A scorer that grants nothing for a side view.
SideViewBonusNone(hasSideView) == 0
SideViewBonus(hasSideView) == IF hasSideView THEN 15 ELSE 0

\* calculateConfidenceScores.
calculateConfidenceScores(caps, hasSideView, hasCalibration, halfUp) ==
  LET base == getBaseConfidence(caps, halfUp)
  IN [k \in MeasurementKeys |->
        MinOf(ConfidenceCap[k],
              base + CalibrationBonus(hasCalibration)
                + (IF k \in CircumferenceKeys THEN SideViewBonus(hasSideView) ELSE 0)
                + ConfidenceOffset[k])]

RECURSIVE SumOver(_, _)
SumOver(f, S) ==
  IF S = {} THEN 0
  ELSE LET k == CHOOSE x \in S : TRUE IN f[k] + SumOver(f, S \ {k})

\* An overall accuracy whose angle bonus grows without bound.
calculateOverallAccuracyUnboundedBonus(conf, caps) ==
  LET weightedSum == SumOver([k \in DOMAIN conf |-> conf[k] * conf[k]], DOMAIN conf)
      weightSum == SumOver(conf, DOMAIN conf)
      angleBonus == (Len(caps) - 1) * 3
  IN IF weightSum = 0 THEN NaN
     ELSE Fin(MinOf(98, RoundDiv(Sgn(weightSum) * (weightedSum + angleBonus * weightSum),
                                 Abs(weightSum))))

\* calculateOverallAccuracy: Math.min(98, Math.round(weightedAvg + angleBonus)).
calculateOverallAccuracy(conf, caps) ==
  LET weightedSum == SumOver([k \in DOMAIN conf |-> conf[k] * conf[k]], DOMAIN conf)
      weightSum == SumOver(conf, DOMAIN conf)
      angleBonus == MinOf(5, (Len(caps) - 1) * 3)
  IN IF DOMAIN conf = {} THEN Fin(0)
     ELSE IF weightSum = 0
     THEN IF weightedSum = 0 THEN NaN ELSE Fin(98)
     ELSE Fin(MinOf(98, RoundDiv(Sgn(weightSum) * (weightedSum + angleBonus * weightSum),
                                 Abs(weightSum))))

-----------------------------------------------------------------------------
(* The pipeline *)

Threw(error) == [status |-> "threw", error |-> error]

CalibrationMethod(calib, known) ==
  IF IsSome(calib) THEN <<"reference_object", calib[1].type>>
  ELSE IF IsSome(known) /\ known[1] # 0 THEN <<"known_height", "">>
  ELSE <<"estimated", "">>

\* A metadata record whose version string carries the processing time.
ResultMetadataStamped(caps, calib, known, elapsed) ==
  [anglesUsed |-> [i \in DOMAIN caps |-> caps[i].type],
   calibrationMethod |-> CalibrationMethod(calib, known),
   processingTimeMs |-> elapsed,
   engineVersion |-> <<"2.0.0-production", elapsed>>]

\* The metadata of a result; elapsed is Date.now() - startTime.
ResultMetadata(caps, calib, known, elapsed) ==
  [anglesUsed |-> [i \in DOMAIN caps |-> caps[i].type],
   calibrationMethod |-> CalibrationMethod(calib, known),
   processingTimeMs |-> elapsed,
   engineVersion |-> "2.0.0-production"]

\* calculateFromMultiAngle; elapsed is Date.now() - startTime, roundsUp the
\* rounding of the zScores (see ZScoreAbove), halfUp that of the base
\* confidence (see getBaseConfidence).
calculateFromMultiAngle(caps, calib, known, g, elapsed, roundsUp, halfUp) ==
  LET sf == computeScaleFactor(caps, calib, known)
      frontCapture == FindCapture(caps, "front")
      sideCapture == FindCapture(caps, "side")
      front == calculateFrontViewMeasurements(frontCapture[1], sf.scale)
      side == IF IsSome(sideCapture)
              THEN Some(calculateSideViewMeasurements(sideCapture[1], sf.scale))
              ELSE None
      circ == calculateCircumferences(front, side, g)
      raw == [k \in MeasurementKeys |->
                CASE k = "height" -> front.height
                  [] k = "shoulders" -> front.shoulderWidth
                  [] k = "sleeve" -> front.sleeveLength
                  [] k = "inseam" -> front.inseam
                  [] OTHER -> circ.values[k]]
      corrected == applyAnthropometricCorrection(raw, g, roundsUp)
      hasCalibration == IsSome(calib) \/ (IsSome(known) /\ known[1] # 0)
      confidence == calculateConfidenceScores(caps, IsSome(sideCapture), hasCalibration,
                                              halfUp)
  IN IF sf.threw THEN Threw("TypeError")
     ELSE IF ~IsSome(frontCapture) THEN Threw("Front-view capture is required")
     ELSE [status |-> "ok",
           scaleFactor |-> sf.scale,
           raw |-> raw,
           result |->
             [measurements |-> corrected.values,
              confidence |-> confidence,
              overallAccuracy |-> calculateOverallAccuracy(confidence, caps),
              warnings |-> sf.warnings \o circ.warnings \o corrected.warnings,
              metadata |-> ResultMetadata(caps, calib, known, elapsed)]]

\* calculateLandmarkConfidence: mean visibility of the landmarks above 0.5.
calculateLandmarkConfidence(lms) ==
  LET visible == {i \in DOMAIN lms : lms[i].visibility > 50}
  IN IF visible = {} THEN Frac(0, 1)
     ELSE Frac(SumSeq([i \in DOMAIN lms |->
                         IF i \in visible THEN lms[i].visibility ELSE 0]),
               100 * Cardinality(visible))

\* calculateFromSingleAngle.
calculateFromSingleAngle(lms, imageWidth, imageHeight, known, g, elapsed, roundsUp, halfUp) ==
  calculateFromMultiAngle(
    <<[type |-> "front", landmarks |-> lms, imageWidth |-> imageWidth,
       imageHeight |-> imageHeight,
       confidence |-> calculateLandmarkConfidence(lms)]>>,
    None, known, g, elapsed, roundsUp, halfUp)

-----------------------------------------------------------------------------
(* AccuracyEngine.ensembleAverage *)
(* The results it is given hold measurements in hundredths of a cm and     *)
(* confidences 0..100, as the app's stored results and the tests' do; a    *)
(* result of the engine may also hold Infinity or NaN, written here as the *)
(* numbers Infinity and NotANumber, which no finite measurement reaches.   *)

\* Number.POSITIVE_INFINITY and NaN among the measurements; NaN > 0 is false.
Infinity == 1000000000
NotANumber == -1000000000

RECURSIVE Insert(_, _)
Insert(sorted, e) ==
  IF sorted = <<>> THEN <<e>>
  ELSE IF e.value < Head(sorted).value THEN <<e>> \o sorted
  ELSE <<Head(sorted)>> \o Insert(Tail(sorted), e)

\* [...values].sort((a, b) => a.value - b.value)
RECURSIVE SortByValue(_)
SortByValue(values) ==
  IF values = <<>> THEN <<>>
  ELSE Insert(SortByValue(SubSeq(values, 1, Len(values) - 1)), values[Len(values)])

\* `r.confidence[key] || 50`
OrFifty(c) == IF c = 0 THEN 50 ELSE c

\* The entries of a key whose value is zero or more.
KeyValuesNonNegative(rs, key) ==
  LET all == [i \in DOMAIN rs |->
                [value |-> IF key \in DOMAIN rs[i].measurements
                           THEN rs[i].measurements[key] ELSE 0,
                 confidence |-> IF key \in DOMAIN rs[i].confidence
                                THEN OrFifty(rs[i].confidence[key]) ELSE 50,
                 index |-> i - 1]]
      nonNegative(v) == v.value >= 0
  IN SelectSeq(all, nonNegative)

\* The {value, confidence, index} entries of a key with a positive value.
KeyValues(rs, key) ==
  LET all == [i \in DOMAIN rs |->
                [value |-> IF key \in DOMAIN rs[i].measurements
                           THEN rs[i].measurements[key] ELSE 0,
                 confidence |-> IF key \in DOMAIN rs[i].confidence
                                THEN OrFifty(rs[i].confidence[key]) ELSE 50,
                 index |-> i - 1]]
      positive(v) == v.value > 0
  IN SelectSeq(all, positive)

\* q1Index = floor(n * 0.25), q3Index = floor(n * 0.75), 0-based.
Q1Index(n) == n \div 4
Q3Index(n) == (n * 3) \div 4

\* The values inside [q1 - 1.5 iqr, q3 + 1.5 iqr].  With q1 = q3 = Infinity
\* the iqr is NaN and no comparison holds; with q3 = Infinity alone the
\* bounds are -Infinity and Infinity and every comparison holds.
IqrFiltered(values) ==
  LET sorted == SortByValue(values)
      q1 == sorted[Q1Index(Len(sorted)) + 1].value
      q3 == sorted[Q3Index(Len(sorted)) + 1].value
      iqr == q3 - q1
      inside(v) == /\ v.value # Infinity
                   /\ 2 * v.value >= 2 * q1 - 3 * iqr
                   /\ 2 * v.value <= 2 * q3 + 3 * iqr
  IN IF q1 = Infinity THEN <<>>
     ELSE IF q3 = Infinity THEN values
     ELSE SelectSeq(values, inside)

\* Math.round((weightedSum / totalWeight) * 10) / 10: a whole number of
\* tenths of a cm, in hundredths; 0 / 0 is NaN.
WeightedMean(filtered) ==
  IF filtered = <<>> THEN NotANumber
  ELSE IF \E i \in DOMAIN filtered : filtered[i].value = Infinity THEN Infinity
  ELSE 10 * RoundDiv(SumSeq([i \in DOMAIN filtered |->
                               filtered[i].value * filtered[i].confidence]),
                     10 * SumSeq([i \in DOMAIN filtered |-> filtered[i].confidence]))

\* An ensemble confidence without the cap of 98.
EnsembleConfidenceUncapped(filtered) ==
  LET n == Len(filtered)
      nBonus == MinOf(15000, ISqrt(25000000 * n))
  IN RoundDiv(1000 * SumSeq([i \in DOMAIN filtered |-> filtered[i].confidence])
                + n * nBonus,
              1000 * n)

\* Math.min(98, Math.round(avgConf + Math.min(15, Math.sqrt(n) * 5))),
\* the square root in thousandths; avgConf of no values is 0 / 0.
EnsembleConfidence(filtered) ==
  LET n == Len(filtered)
      nBonus == MinOf(15000, ISqrt(25000000 * n))
  IN IF n = 0 THEN NotANumber
     ELSE MinOf(98, RoundDiv(1000 * SumSeq([i \in DOMAIN filtered |->
                                              filtered[i].confidence])
                               + n * nBonus,
                             1000 * n))

RECURSIVE SumOutliers(_, _)
SumOutliers(rs, keys) ==
  IF keys = {} THEN 0
  ELSE LET k == CHOOSE x \in keys : TRUE
       IN (Len(KeyValues(rs, k)) - Len(IqrFiltered(KeyValues(rs, k))))
            + SumOutliers(rs, keys \ {k})

\* A single result passes through.
PassThrough(r) ==
  [status |-> "ok",
   value |-> [measurements |-> r.measurements, confidence |-> r.confidence,
              scansUsed |-> 1, outliersRemoved |-> 0]]

\* The loop over the keys of the first result, for two results or more.
EnsembleOfMany(rs) ==
  LET kept == {k \in DOMAIN rs[1].measurements : KeyValues(rs, k) # <<>>}
  IN [status |-> "ok",
      value |-> [measurements |-> [k \in kept |->
                                     WeightedMean(IqrFiltered(KeyValues(rs, k)))],
                 confidence |-> [k \in kept |->
                                   EnsembleConfidence(IqrFiltered(KeyValues(rs, k)))],
                 scansUsed |-> Len(rs),
                 outliersRemoved |-> SumOutliers(rs, kept)]]

\* An ensembleAverage that answers an empty list with an empty result.
ensembleAverageEmptyResult(rs) ==
  IF Len(rs) = 0
  THEN [status |-> "ok",
        value |-> [measurements |-> <<>>, confidence |-> <<>>,
                   scansUsed |-> 0, outliersRemoved |-> 0]]
  ELSE IF Len(rs) = 1 THEN PassThrough(rs[1])
  ELSE EnsembleOfMany(rs)

\* ensembleAverage.
ensembleAverage(rs) ==
  IF Len(rs) = 0 THEN Threw("No results to ensemble")
  ELSE IF Len(rs) = 1 THEN PassThrough(rs[1])
  ELSE EnsembleOfMany(rs)

-----------------------------------------------------------------------------
(* AccuracyEngine: outlier detection against the history *)

\* History and new values are in tenths of a centimetre.  The statistics of
\* values that differ are computed exactly, the rounding of the doubles
\* deciding only an exact tie; the mean of values that are all equal is
\* computed as the doubles yield it (MeanOfEqual), since the test stdDev > 0
\* depends on it.

\* history.map(m => m.measurements[key]).filter(v => typeof v === 'number' && v > 0);
\* a key the entry does not hold reads as undefined and is filtered out.
HistoricalValues(hist, key) ==
  SelectSeq([i \in DOMAIN hist |->
               IF key \in DOMAIN hist[i].measurements
               THEN hist[i].measurements[key] ELSE 0],
            LAMBDA v : v > 0)

\* n, the sum S and n^2 times the variance (n * sum of squares - S^2) of the
\* historical values: mean = S / n and stdDev = sqrt(spread) / n.
KeyStatistics(values) ==
  LET n == Len(values)
      S == SumSeq(values)
  IN [n |-> n, sum |-> S,
      spread |-> n * SumSeq([i \in DOMAIN values |-> values[i] * values[i]]) - S * S]

\* zScore = |newValue - mean| / stdDev = |n newValue - S| / sqrt(spread), as
\* the pair of the numerator and the square of the denominator.
ZScoreOf(newValue, st) ==
  [num |-> Abs(st.n * newValue - st.sum), den2 |-> st.spread]

\* A test that compares the deviation with threshold times the variance.
ZScoreExceedsVariance(newValue, st, twiceThreshold, roundsUp) ==
  2 * st.n * Abs(st.n * newValue - st.sum) > twiceThreshold * st.spread

\* zScore > threshold, the threshold given in halves (5 for 2.5), both sides
\* squared; when the exact zScore equals the threshold, roundsUp says whether
\* the double landed above it.
ZScoreExceeds(newValue, st, twiceThreshold, roundsUp) ==
  LET z == ZScoreOf(newValue, st)
      lhs == 4 * z.num * z.num
      rhs == twiceThreshold * twiceThreshold * z.den2
  IN lhs > rhs \/ (lhs = rhs /\ roundsUp)

\* The mean of equal history values as the double arithmetic yields it.  A
\* double is m * 2^e with 2^52 <= m < 2^53; m is held in two limbs, hi * 2^27
\* + lo, and every operation rounds to the nearest double, ties to even.
Limb == 134217728
RECURSIVE TwoTo(_)
TwoTo(k) == IF k = 0 THEN 1 ELSE 2 * TwoTo(k - 1)
Doubled(x) == [hi |-> 2 * x.hi + (x.lo \div (Limb \div 2)), lo |-> (2 * x.lo) % Limb]
Successor(x) ==
  IF x.lo + 1 = Limb THEN [hi |-> x.hi + 1, lo |-> 0] ELSE [hi |-> x.hi, lo |-> x.lo + 1]
\* m * 2^e with m of 53 bits or one more after a carry: back to 53 bits.
Normalised(m, e) ==
  IF m.hi >= TwoTo(26) THEN [m |-> [hi |-> m.hi \div 2, lo |-> ((m.hi % 2) * Limb + m.lo) \div 2],
                             e |-> e + 1]
  ELSE [m |-> m, e |-> e]
\* x * 2^e / n for 3 <= n <= 10, rounded: x is doubled until the quotient
\* has 53 bits.
RECURSIVE DoubleQuotient(_, _, _)
DoubleQuotient(x, e, n) ==
  IF x.hi < n * TwoTo(25) THEN DoubleQuotient(Doubled(x), e - 1, n)
  ELSE LET rest == (x.hi % n) * Limb + x.lo
           q == [hi |-> x.hi \div n, lo |-> rest \div n]
           r == rest % n
           up == 2 * r > n \/ (2 * r = n /\ q.lo % 2 = 1)
       IN Normalised(IF up THEN Successor(q) ELSE q, e)
\* The double nearest to tenths / 10: a measurement rounded to 0.1 cm.
DoubleOfTenths(tenths) == DoubleQuotient([hi |-> tenths, lo |-> 0], -27, 10)
\* a + b for doubles a >= b > 0 with a < 32 b.
DoubleSum(a, b) ==
  LET d == a.e - b.e
      lo == a.m.lo * TwoTo(d) + b.m.lo
      hi == a.m.hi * TwoTo(d) + b.m.hi + (lo \div Limb)
      k == CHOOSE j \in 0..6 : hi \div TwoTo(j) \in TwoTo(25)..(TwoTo(26) - 1)
      r == (lo % Limb) % TwoTo(k)
      q == [hi |-> hi \div TwoTo(k),
            lo |-> ((lo % Limb) \div TwoTo(k)) + (hi % TwoTo(k)) * (Limb \div TwoTo(k))]
      up == k > 0 /\ (2 * r > TwoTo(k) \/ (2 * r = TwoTo(k) /\ q.lo % 2 = 1))
  IN Normalised(IF up THEN Successor(q) ELSE q, b.e + k)
\* historicalValues.reduce((a, b) => a + b, 0) over n values equal to v.
RECURSIVE SumOfEqual(_, _)
SumOfEqual(v, n) == IF n = 1 THEN v ELSE DoubleSum(SumOfEqual(v, n - 1), v)
\* mean = sum / historicalValues.length, for n values of tenths / 10 cm.
MeanOfEqual(tenths, n) ==
  LET sum == SumOfEqual(DoubleOfTenths(tenths), n)
  IN DoubleQuotient(sum.m, sum.e, n)

\* stdDev > 0 for n history values all equal to tenths / 10: the variance is
\* the sum of (v - mean) ** 2 over n, positive when the double mean is not v.
StdDevOfEqualPositive(tenths, n) == MeanOfEqual(tenths, n) # DoubleOfTenths(tenths)

\* zScore > threshold over such a history: stdDev is then |v - mean|, one
\* rounding error of the mean, so the zScore of v itself is 1 and that of
\* any other value of tenths of a cm is above 10^11.
ResidueZScoreExceeds(newValue, tenths, twiceThreshold) ==
  IF newValue = tenths THEN 2 > twiceThreshold ELSE TRUE

\* The keys of newMeasurement in the order Object.entries yields them.
EntryOrder == <<"height", "chest", "waist">>

\* One iteration of the loop: is the key pushed to outlierKeys?
FlagsKey(newMeasurement, hist, key, twiceThreshold, roundsUp) ==
  LET values == HistoricalValues(hist, key)
      st == KeyStatistics(values)
  IN /\ Len(values) >= 3
     /\ IF st.spread > 0
        THEN ZScoreExceeds(newMeasurement[key], st, twiceThreshold, roundsUp)
        ELSE /\ StdDevOfEqualPositive(values[1], Len(values))
             /\ ResidueZScoreExceeds(newMeasurement[key], values[1], twiceThreshold)

\* detectOutlier.
detectOutlier(newMeasurement, hist, twiceThreshold, roundsUp) ==
  IF Len(hist) < 3
  THEN [isOutlier |-> FALSE, outlierKeys |-> <<>>, details |-> <<>>]
  ELSE LET flagged == {k \in DOMAIN newMeasurement :
                         FlagsKey(newMeasurement, hist, k, twiceThreshold, roundsUp)}
           outlierKeys == SelectSeq(EntryOrder, LAMBDA k : k \in flagged)
       IN [isOutlier |-> Len(outlierKeys) > 0,
           outlierKeys |-> outlierKeys,
           details |->
             [k \in flagged |->
                LET st == KeyStatistics(HistoricalValues(hist, k))
                IN [zScore |-> ZScoreOf(newMeasurement[k], st),
                    expected |-> Frac(st.sum, st.n),
                    actual |-> newMeasurement[k]]]]

-----------------------------------------------------------------------------
(* AccuracyEngine: the accuracy report *)

\* The measurements of a result are in hundredths of a centimetre, those of
\* the history in tenths.

\* percentDeviation > p, with percentDeviation = |value - mean| / mean * 100
\* and mean = S / n: 100 |n value - 10 S| > p 10 S.  When the exact percentage
\* equals p, roundsUp says whether the double landed above it.
PercentDeviationAbove(value, st, p, roundsUp) ==
  LET lhs == 100 * Abs(st.n * value - 10 * st.sum)
      rhs == p * 10 * st.sum
  IN lhs > rhs \/ (lhs = rhs /\ roundsUp)

\* percentDeviation.toFixed(1), in tenths of a percent.
PercentDeviationText(value, st) ==
  RoundDiv(1000 * Abs(st.n * value - 10 * st.sum), 10 * st.sum)

\* The larger of two non-negative fractions.
FracMax(a, b) == IF a.n * b.d >= b.n * a.d THEN a ELSE b

\* A classification by confidence with the bounds taken strictly.
ReliabilityOfConfidenceStrict(conf) ==
  IF conf > 85 THEN "high" ELSE IF conf > 70 THEN "medium" ELSE "low"

\* The classification by confidence alone.
ReliabilityOfConfidence(conf) ==
  IF conf >= 85 THEN "high" ELSE IF conf >= 70 THEN "medium" ELSE "low"

EstimatedErrorOfConfidence(conf) ==
  IF conf >= 85 THEN Frac(15, 10) ELSE IF conf >= 70 THEN Frac(30, 10) ELSE Frac(50, 10)

\* One iteration of the loop over result.measurements: perMeasurement[key].
AnalyzeKey(result, previousMeasurements, key, roundsUp) ==
  LET value == result.measurements[key]
      conf == OrFifty(IF key \in DOMAIN result.confidence
                      THEN result.confidence[key] ELSE 0)
      byConfidence ==
        [confidence |-> conf,
         reliability |-> ReliabilityOfConfidence(conf),
         estimatedErrorCm |-> EstimatedErrorOfConfidence(conf),
         suggestion |-> IF conf >= 70 THEN None ELSE Some(<<"low confidence", key>>)]
      historicalValues == HistoricalValues(previousMeasurements, key)
      st == KeyStatistics(historicalValues)
  IN IF Len(previousMeasurements) > 0 /\ Len(historicalValues) >= 2
     THEN IF PercentDeviationAbove(value, st, 15, roundsUp)
          THEN [byConfidence EXCEPT
                  !.reliability = "low",
                  !.estimatedErrorCm =
                     FracMax(@, Frac(Abs(st.n * value - 10 * st.sum), 100 * st.n)),
                  !.suggestion =
                     Some(<<"differs from your average", key,
                            PercentDeviationText(value, st)>>)]
          ELSE IF PercentDeviationAbove(value, st, 8, roundsUp)
          THEN [byConfidence EXCEPT
                  !.reliability = IF @ = "high" THEN "medium" ELSE @,
                  !.suggestion =
                     Some(<<"shows some variation", key,
                            PercentDeviationText(value, st)>>)]
          ELSE byConfidence
     ELSE byConfidence

\* The order in which Object.entries yields the keys of a result.
ResultKeyOrder ==
  <<"height", "shoulders", "chest", "waist", "hips", "neck", "sleeve",
    "inseam", "thigh", "calf">>

\* Improvement potential without the cap.
ImprovedUncapped(score, bonus) == score + bonus

\* Math.min(98, currentScore + bonus).
Improved(score, bonus) == MinOf(98, score + bonus)

\* analyzeAccuracy.
analyzeAccuracy(result, previousMeasurements, roundsUp) ==
  LET perMeasurement ==
        [k \in DOMAIN result.measurements |->
           AnalyzeKey(result, previousMeasurements, k, roundsUp)]
      usedSide == \E i \in DOMAIN result.metadata.anglesUsed :
                    result.metadata.anglesUsed[i] = "side"
      estimated == result.metadata.calibrationMethod = <<"estimated", "">>
      lowConfItems == SelectSeq(ResultKeyOrder,
                                LAMBDA k : /\ k \in DOMAIN perMeasurement
                                           /\ perMeasurement[k].reliability = "low")
      recommendations ==
        (IF ~usedSide THEN <<<<"Add a side-view photo">>>> ELSE <<>>)
        \o (IF estimated THEN <<<<"Use a reference object or enter your height">>>>
            ELSE <<>>)
        \o (IF Len(previousMeasurements) < 3 THEN <<<<"Take 3+ scans">>>> ELSE <<>>)
        \o (IF Len(lowConfItems) > 0 THEN <<<<"Low reliability for", lowConfItems>>>>
            ELSE <<>>)
      confSum == SumOver([k \in DOMAIN perMeasurement |-> perMeasurement[k].confidence],
                         DOMAIN perMeasurement)
      overallScore == IF DOMAIN perMeasurement = {} THEN 0
                      ELSE RoundDiv(confSum, Cardinality(DOMAIN perMeasurement))
  IN [overallScore |-> overallScore,
      perMeasurement |-> perMeasurement,
      recommendations |-> recommendations,
      improvementPotential |->
        [withCalibration |-> IF estimated THEN Improved(overallScore, 15)
                             ELSE overallScore,
         withSideView |-> IF ~usedSide THEN Improved(overallScore, 12)
                          ELSE overallScore,
         withMultipleScans |-> Improved(overallScore, 5)]]

\* The roundings to consider for a detectOutlier call: both where some key's
\* exact zScore equals the threshold, one otherwise.
DetectionRoundings(newMeasurement, hist, twiceThreshold) ==
  IF \E k \in DOMAIN newMeasurement :
       LET z == ZScoreOf(newMeasurement[k], KeyStatistics(HistoricalValues(hist, k)))
       IN 4 * z.num * z.num = twiceThreshold * twiceThreshold * z.den2
  THEN BOOLEAN ELSE {FALSE}

\* The same for analyzeAccuracy: some key deviates by exactly 8% or 15%.
AnalysisRoundings(result, previousMeasurements) ==
  IF \E k \in DOMAIN result.measurements, p \in {8, 15} :
       LET st == KeyStatistics(HistoricalValues(previousMeasurements, k))
       IN /\ st.n >= 2
          /\ 100 * Abs(st.n * result.measurements[k] - 10 * st.sum) = p * 10 * st.sum
  THEN BOOLEAN ELSE {FALSE}

-----------------------------------------------------------------------------
(* ReferenceCalibrationService *)

\* Real sizes in thousandths of a cm; detected extents are in hundredths of
\* a pixel.
REFERENCE_SIZES ==
  [credit_card |-> [width |-> 8560, height |-> 5398],
   a4_paper |-> [width |-> 21000, height |-> 29700],
   ruler |-> [width |-> 30000, height |-> 3000]]

\* aspectRatioError = |ppcWidth - ppcHeight| / Math.max(ppcWidth, ppcHeight)
\* for extents that are not negative; 0 / 0 (both extents 0) is NaN.
AspectRatioError(ppcWidth, ppcHeight) ==
  LET cw == ppcWidth.n * ppcHeight.d
      ch == ppcHeight.n * ppcWidth.d
  IN Frac(Abs(cw - ch), MaxOf(cw, ch))

\* A tolerance of 10% in place of 5%.
ErrorAboveToleranceOfTenth(err, roundsUp) ==
  /\ err.d # 0
  /\ 100 * err.n > 10 * err.d

\* aspectRatioError > 0.05; NaN is above nothing, and an error of exactly
\* 0.05 is above or not as the doubles round (roundsUp).
ErrorAboveTolerance(err, roundsUp) ==
  /\ err.d # 0
  /\ \/ 100 * err.n > 5 * err.d
     \/ 100 * err.n = 5 * err.d /\ roundsUp

\* Math.max(0.5, Math.min(1, confidence)).
ClampConfidence(c) ==
  IF 2 * c.n < c.d THEN Frac(1, 2) ELSE IF c.n > c.d THEN Frac(1, 1) ELSE c

\* createCalibration.
createCalibration(referenceType, detectedWidthPixels, detectedHeightPixels, roundsUp) ==
  LET realSize == REFERENCE_SIZES[referenceType]
      ppcWidth == Frac(10 * detectedWidthPixels, realSize.width)
      ppcHeight == Frac(10 * detectedHeightPixels, realSize.height)
      aspectRatioError == AspectRatioError(ppcWidth, ppcHeight)
      confidence ==
        IF ErrorAboveTolerance(aspectRatioError, roundsUp)
        THEN Frac(95 * aspectRatioError.d - 200 * aspectRatioError.n,
                  100 * aspectRatioError.d)
        ELSE Frac(95, 100)
  IN [reference |->
        [type |-> referenceType,
         pixelWidth |-> detectedWidthPixels,
         pixelHeight |-> detectedHeightPixels,
         realWidthCm |-> realSize.width,
         realHeightCm |-> realSize.height],
      pixelsPerCm |-> Frac(ppcWidth.n * ppcHeight.d + ppcHeight.n * ppcWidth.d,
                           2 * ppcWidth.d * ppcHeight.d),
      confidence |-> ClampConfidence(confidence),
      distanceEstimateCm |-> Frac(48 * realSize.width, detectedWidthPixels)]

\* createHeightCalibration; the known height in thousandths of a cm.
createHeightCalibration(knownHeightCm, detectedHeightPixels) ==
  [reference |->
     [type |-> "known_height",
      pixelWidth |-> 0,
      pixelHeight |-> detectedHeightPixels,
      realWidthCm |-> 0,
      realHeightCm |-> knownHeightCm],
   pixelsPerCm |-> Frac(10 * detectedHeightPixels, knownHeightCm),
   confidence |-> Frac(85, 100),
   distanceEstimateCm |-> Frac(0, 1)]

\* The roundings to consider for a createCalibration call.
CalibrationRoundings(referenceType, detectedWidthPixels, detectedHeightPixels) ==
  LET realSize == REFERENCE_SIZES[referenceType]
      err == AspectRatioError(Frac(10 * detectedWidthPixels, realSize.width),
                              Frac(10 * detectedHeightPixels, realSize.height))
  IN IF err.d # 0 /\ 100 * err.n = 5 * err.d THEN BOOLEAN ELSE {FALSE}

-----------------------------------------------------------------------------
(* Inputs *)

MaxElapsedMs == 1
MaxScans == 5
MaxSigma == 4

NoOutcome == [status |-> "none"]

\* The reference detections the host may pass: none, a credit card detected
\* 171.2 x 107.96 px wide, and the reference CalibrationScreen builds with
\* createHeightCalibration(height, 0).
Calibrations ==
  {None,
   Some([type |-> "credit_card", pixelWidth |-> 17120, pixelHeight |-> 10796,
         realWidthCm |-> 8560, realHeightCm |-> 5398]),
   Some([type |-> "known_height", pixelWidth |-> 0, pixelHeight |-> 0,
         realWidthCm |-> 0, realHeightCm |-> 175000])}

KnownHeights == {None, Some(175)}

Absent == "absent"

\* The captures of one scan, in the order the capture screen takes them.
ScanCaptures(front, side, back, conf) ==
  (IF front = Absent THEN <<>>
   ELSE <<Capture("front", FrontPostures[front], conf)>>)
  \o (IF side = Absent THEN <<>>
      ELSE <<Capture("side", SidePostures[side], 85)>>)
  \o (IF back THEN <<Capture("back", FrontLandmarks, 90)>> ELSE <<>>)

\* createMockResult of the accuracy engine's tests, chest overridden.
MockResult(chest, chestConfidence) ==
  [measurements |->
     [height |-> 17500, shoulders |-> 4500, chest |-> chest, waist |-> 8000,
      hips |-> 9800, neck |-> 3800, sleeve |-> 6200, inseam |-> 8000,
      thigh |-> 5500, calf |-> 3700],
   confidence |->
     [height |-> 90, shoulders |-> 85, chest |-> chestConfidence, waist |-> 78,
      hips |-> 82, neck |-> 75, sleeve |-> 83, inseam |-> 79, thigh |-> 72,
      calf |-> 68],
   overallAccuracy |-> 82,
   warnings |-> <<>>,
   metadata |-> [anglesUsed |-> <<"front">>,
                 calibrationMethod |-> <<"known_height", "">>,
                 processingTimeMs |-> 150,
                 engineVersion |-> "2.0.0-production"]]

\* Chest readings of repeated scans, in hundredths of a cm: two that agree
\* (94 and 94.25), a far too large and a far too small one, and a scan that
\* produced none.
ScanTemplates ==
  {MockResult(9400, 80), MockResult(9425, 82), MockResult(15000, 90),
   MockResult(4000, 60), MockResult(0, 0)}

\* A measured value j standard deviations (plus delta tenths) off the value the
\* ratio table expects for a height h.
Deviating(h, g, key, j, delta) ==
  (h * (ANTHROPOMETRIC_RATIOS[g][key] + j * RATIO_STDDEV[key])) \div 1000 + delta

Deviations == {[j |-> j, delta |-> d] : j \in {-MaxSigma, -3, -2, 0, 2, 3, MaxSigma},
                                        d \in {-1, 0, 1}}
              \cup {[j |-> -1000, delta |-> 0]}

CorrectionHeights == {0, 1000, 2000}

\* The measurement set handed to the correction: the circumference keys
\* deviate by dc, the linear keys by dl; j = -1000 stands for a key that
\* was measured as 0.
CorrectionInput(h, g, dc, dl) ==
  [k \in MeasurementKeys |->
     IF k = "height" THEN Fin(h)
     ELSE LET dv == IF k \in CircumferenceKeys THEN dc ELSE dl
          IN IF dv.j = -1000 THEN Fin(0)
             ELSE Fin(Deviating(h, g, k, dv.j, dv.delta))]

-----------------------------------------------------------------------------
(* State machine *)

Init ==
  /\ captures = <<>>
  /\ calibration = None
  /\ knownHeight = None
  /\ gender = "other"
  /\ outcome = NoOutcome
  /\ corrIn = [gender |-> "other", measurements |-> <<>>, roundsUp |-> FALSE]
  /\ corrOut = NoOutcome
  /\ corrAgain = NoOutcome
  /\ results = <<>>
  /\ ensemble = NoOutcome
  /\ history = <<>>
  /\ detection = NoOutcome
  /\ report = NoOutcome
  /\ created = NoOutcome
  /\ scores = <<>>
  /\ calls = <<>>
  /\ ellipse = NoOutcome
  /\ processor = [apiKey |-> FALSE, isCloudAvailable |-> "null", checking |-> FALSE,
                  failedSinceUpdate |-> FALSE, failedLast |-> FALSE]
  /\ poseCalls = <<>>
  /\ store = [measurements |-> <<>>, currentMeasurement |-> None,
              isLoading |-> FALSE, error |-> None]
  /\ persisted = None
  /\ adds = <<>>

\* The scan screen runs the engine on the captures it collected.
CalculateFromMultiAngle ==
  /\ outcome.status = "none"
  /\ \E front \in DOMAIN FrontPostures \cup {Absent},
        side \in DOMAIN SidePostures \cup {Absent},
        back \in BOOLEAN,
        conf \in ConfidenceLevels,
        calib \in Calibrations,
        known \in KnownHeights,
        g \in Genders,
        elapsed \in 0..MaxElapsedMs,
        roundsUp \in BOOLEAN :
       /\ captures' = ScanCaptures(front, side, back, conf)
       /\ calibration' = calib
       /\ knownHeight' = known
       /\ gender' = g
       /\ \E halfUp \in HalfRoundings(captures') :
            outcome' = calculateFromMultiAngle(captures', calib, known, g, elapsed,
                                               roundsUp, halfUp)
  /\ UNCHANGED <<correctionVars, ensembleVars, accuracyVars, created, scores, calls, serviceVars>>

\* The quick single-photo measurement.
CalculateFromSingleAngle ==
  /\ outcome.status = "none"
  /\ \E front \in DOMAIN FrontPostures,
        known \in KnownHeights,
        g \in Genders,
        elapsed \in 0..MaxElapsedMs,
        roundsUp \in BOOLEAN :
       /\ captures' = <<[type |-> "front", landmarks |-> FrontPostures[front],
                         imageWidth |-> ImageWidth, imageHeight |-> ImageHeight,
                         confidence |->
                           calculateLandmarkConfidence(FrontPostures[front])]>>
       /\ calibration' = None
       /\ knownHeight' = known
       /\ gender' = g
       /\ \E halfUp \in HalfRoundings(captures') :
            outcome' = calculateFromSingleAngle(FrontPostures[front], ImageWidth,
                                                ImageHeight, known, g, elapsed,
                                                roundsUp, halfUp)
  /\ UNCHANGED <<correctionVars, ensembleVars, accuracyVars, created, scores, calls, serviceVars>>

\* The host starts a new scan; the engine keeps nothing of the last one.
NewScan ==
  /\ outcome.status # "none"
  /\ captures' = <<>>
  /\ calibration' = None
  /\ knownHeight' = None
  /\ gender' = "other"
  /\ outcome' = NoOutcome
  /\ UNCHANGED <<correctionVars, ensembleVars, accuracyVars, created, scores, calls, serviceVars>>

Next == CalculateFromMultiAngle \/ CalculateFromSingleAngle \/ NewScan

Spec == Init /\ [][Next]_vars

\* applyAnthropometricCorrection on its own.
ApplyCorrection ==
  /\ corrOut.status = "none"
  /\ \E h \in CorrectionHeights, g \in Genders, dc \in Deviations, dl \in Deviations,
        roundsUp \in BOOLEAN :
       /\ corrIn' = [gender |-> g, measurements |-> CorrectionInput(h, g, dc, dl),
                     roundsUp |-> roundsUp]
       /\ corrOut' = [status |-> "ok"] @@
                     applyAnthropometricCorrection(corrIn'.measurements, g, roundsUp)
  /\ UNCHANGED <<pipelineVars, corrAgain, ensembleVars, accuracyVars, created, scores, calls, serviceVars>>

\* The correction runs once more over what it returned, same gender.
ApplyCorrectionAgain ==
  /\ corrOut.status = "ok"
  /\ corrAgain.status = "none"
  /\ \E roundsUp \in BOOLEAN :
       corrAgain' = [status |-> "ok", roundsUp |-> roundsUp] @@
                    applyAnthropometricCorrection(corrOut.values, corrIn.gender, roundsUp)
  /\ UNCHANGED <<pipelineVars, corrIn, corrOut, ensembleVars, accuracyVars, created, scores, calls, serviceVars>>

NextCorrection == ApplyCorrection \/ ApplyCorrectionAgain

SpecCorrection == Init /\ [][NextCorrection]_vars

\* One more completed scan joins the list to be averaged.
AddResult ==
  /\ ensemble.status = "none"
  /\ Len(results) < MaxScans
  /\ \E r \in ScanTemplates : results' = Append(results, r)
  /\ UNCHANGED <<pipelineVars, correctionVars, ensemble, accuracyVars, created, scores, calls, serviceVars>>

EnsembleAverage ==
  /\ ensemble.status = "none"
  /\ ensemble' = ensembleAverage(results)
  /\ UNCHANGED <<pipelineVars, correctionVars, results, accuracyVars, created, scores, calls, serviceVars>>

NextEnsemble == AddResult \/ EnsembleAverage

SpecEnsemble == Init /\ [][NextEnsemble]_vars

-----------------------------------------------------------------------------
(* Confidence scoring on its own (SpecConfidence) *)

\* Capture confidences from 0 to 1 in steps of 0.1, in hundredths.
ScoreLevels == {10 * i : i \in 0..10}

\* Steps 8 and 9 of calculateFromMultiAngle for the captures caps.
ScoreCall(caps, hasCalibration, halfUp) ==
  LET hasSideView == IsSome(FindCapture(caps, "side"))
      confidence == calculateConfidenceScores(caps, hasSideView, hasCalibration, halfUp)
  IN [captures |-> caps, hasSideView |-> hasSideView,
      hasCalibration |-> hasCalibration, confidence |-> confidence,
      overallAccuracy |-> calculateOverallAccuracy(confidence, caps)]

\* A scan without a side capture is scored.
ScoreConfidence ==
  /\ scores = <<>>
  /\ calls = <<>>
  /\ \E conf \in ScoreLevels, back \in BOOLEAN, hasCalibration \in BOOLEAN :
       LET caps == ScanCaptures("standing", Absent, back, conf)
       IN \E halfUp \in HalfRoundings(caps) :
            scores' = <<ScoreCall(caps, hasCalibration, halfUp)>>
  /\ UNCHANGED <<pipelineVars, correctionVars, ensembleVars, accuracyVars, created, calls, serviceVars>>

\* The same scan is scored again with a side capture added to it.
ScoreWithSideAdded ==
  /\ Len(scores) = 1
  /\ \E conf \in ScoreLevels :
       LET caps == <<Head(scores[1].captures),
                     Capture("side", SidePostures.standing, conf)>>
                   \o Tail(scores[1].captures)
       IN \E halfUp \in HalfRoundings(caps) :
            scores' = Append(scores, ScoreCall(caps, scores[1].hasCalibration, halfUp))
  /\ UNCHANGED <<pipelineVars, correctionVars, ensembleVars, accuracyVars, created, calls, serviceVars>>

NextConfidence == ScoreConfidence \/ ScoreWithSideAdded

SpecConfidence == Init /\ [][NextConfidence]_vars

-----------------------------------------------------------------------------
(* The accuracy engine over a history of scans (SpecAccuracy) *)

MaxHistory == 4

\* A stored BodyMeasurement, in tenths of a cm (the history of the
\* detectOutlier tests); chest 0 is a scan that stored none.
StoredScan(chest, waist) ==
  [unit |-> "cm",
   measurements |->
     [height |-> 1750, weight |-> 700, chest |-> chest, waist |-> waist,
      hips |-> 980, shoulders |-> 450, neck |-> 380, sleeve |-> 620,
      inseam |-> 800, thigh |-> 550, calf |-> 370]]

StoredScans == {StoredScan(950, 800), StoredScan(960, 810), StoredScan(0, 790)}

\* New measurements handed to detectOutlier, in tenths of a cm: an extreme
\* chest, a consistent scan, and one off in height with chest and waist a
\* few standard deviations from what the history holds.
NewMeasurements ==
  {[height |-> 1750, chest |-> 1400, waist |-> 800],
   [height |-> 1750, chest |-> 955, waist |-> 800],
   [height |-> 1200, chest |-> 970, waist |-> 815]}

\* Thresholds in halves: 2, the default 2.5.
TwiceThresholds == {4, 5}

\* Results handed to analyzeAccuracy: the mock result of the tests with the
\* chest (hundredths of a cm) on, 8%, 10.5%, 15% and 58% above 95 cm, each
\* with a chest confidence on either side of the class bounds, with the
\* confidences of the mock or all at 100, and with the metadata varied.
AnalysisChests == {9500, 10260, 10500, 10925, 15000}
AnalysisConfidences == {90, 85, 70, 69, 0}
AnalysisMetadata ==
  {[anglesUsed |-> <<"front">>, calibrationMethod |-> <<"known_height", "">>],
   [anglesUsed |-> <<"front">>, calibrationMethod |-> <<"estimated", "">>],
   [anglesUsed |-> <<"front", "side">>, calibrationMethod |-> <<"estimated", "">>]}

AnalysisResult(chest, chestConfidence, allFull, meta) ==
  LET r == MockResult(chest, chestConfidence)
  IN [r EXCEPT
        !.confidence = IF allFull
                       THEN [k \in DOMAIN @ |-> IF k = "chest" THEN @[k] ELSE 100]
                       ELSE @,
        !.metadata.anglesUsed = meta.anglesUsed,
        !.metadata.calibrationMethod = meta.calibrationMethod]

\* The persistence layer stores one more scan.
SaveMeasurement ==
  /\ detection.status = "none"
  /\ report.status = "none"
  /\ Len(history) < MaxHistory
  /\ \E m \in StoredScans : history' = Append(history, m)
  /\ UNCHANGED <<pipelineVars, correctionVars, ensembleVars, detection, report,
                 created, scores, calls, serviceVars>>

DetectOutlier ==
  /\ detection.status = "none"
  /\ report.status = "none"
  /\ \E newMeasurement \in NewMeasurements, twiceThreshold \in TwiceThresholds :
       \E roundsUp \in DetectionRoundings(newMeasurement, history, twiceThreshold) :
         detection' = [status |-> "ok",
                       newMeasurement |-> newMeasurement,
                       twiceThreshold |-> twiceThreshold,
                       roundsUp |-> roundsUp,
                       result |-> detectOutlier(newMeasurement, history,
                                                twiceThreshold, roundsUp)]
  /\ UNCHANGED <<pipelineVars, correctionVars, ensembleVars, history, report,
                 created, scores, calls, serviceVars>>

AnalyzeAccuracy ==
  /\ detection.status = "none"
  /\ report.status = "none"
  /\ \E chest \in AnalysisChests, conf \in AnalysisConfidences,
        allFull \in BOOLEAN, meta \in AnalysisMetadata :
       LET result == AnalysisResult(chest, conf, allFull, meta)
       IN \E roundsUp \in AnalysisRoundings(result, history) :
            report' = [status |-> "ok",
                       result |-> result,
                       roundsUp |-> roundsUp,
                       report |-> analyzeAccuracy(result, history, roundsUp)]
  /\ UNCHANGED <<pipelineVars, correctionVars, ensembleVars, history, detection,
                 created, scores, calls, serviceVars>>

NextAccuracy == SaveMeasurement \/ DetectOutlier \/ AnalyzeAccuracy

SpecAccuracy == Init /\ [][NextAccuracy]_vars

-----------------------------------------------------------------------------
(* Reference calibration (SpecCalibration) *)

\* Pixels per cm at which a reference object may be detected along one axis.
DetectedPpc == {0, 100, 155, 160, 180, 190, 200, 210, 220}

\* The detections of the calibration tests, in hundredths of a pixel: a
\* credit card 171.2 x 107.96 and 171.2 x 60, a sheet 420 x 594, a ruler
\* 600 x 60.
TestDetections ==
  {[type |-> "credit_card", width |-> 17120, height |-> 10796],
   [type |-> "credit_card", width |-> 17120, height |-> 6000],
   [type |-> "a4_paper", width |-> 42000, height |-> 59400],
   [type |-> "ruler", width |-> 60000, height |-> 6000]}

Detections ==
  TestDetections
  \cup {[type |-> t,
         width |-> (pw * REFERENCE_SIZES[t].width) \div 10,
         height |-> (ph * REFERENCE_SIZES[t].height) \div 10] :
          t \in DOMAIN REFERENCE_SIZES, pw \in DetectedPpc, ph \in DetectedPpc}

CreateCalibration ==
  /\ created.status = "none"
  /\ \E d \in Detections :
       \E roundsUp \in CalibrationRoundings(d.type, d.width, d.height) :
         created' = [status |-> "ok", roundsUp |-> roundsUp,
                     result |-> createCalibration(d.type, d.width, d.height, roundsUp)]
  /\ UNCHANGED <<pipelineVars, correctionVars, ensembleVars, accuracyVars, scores, calls, serviceVars>>

NextCalibration == CreateCalibration

SpecCalibration == Init /\ [][NextCalibration]_vars

-----------------------------------------------------------------------------
(* The pipeline invoked twice with the same arguments (SpecRepeat) *)

\* One invocation: its arguments, how its doubles rounded on ties (a function
\* of the arguments) and what it returned or threw.
Invocation(caps, calib, known, g, elapsed, roundsUp, halfUp) ==
  [captures |-> caps, calibration |-> calib, knownHeight |-> known, gender |-> g,
   roundsUp |-> roundsUp, halfUp |-> halfUp,
   outcome |-> calculateFromMultiAngle(caps, calib, known, g, elapsed, roundsUp,
                                       halfUp)]

Invoke ==
  /\ calls = <<>>
  /\ \E front \in DOMAIN FrontPostures \cup {Absent},
        side \in DOMAIN SidePostures \cup {Absent},
        calib \in Calibrations,
        known \in KnownHeights,
        g \in Genders,
        elapsed \in 0..MaxElapsedMs,
        roundsUp \in BOOLEAN :
       LET caps == ScanCaptures(front, side, FALSE, 90)
       IN \E halfUp \in HalfRoundings(caps) :
            calls' = <<Invocation(caps, calib, known, g, elapsed, roundsUp, halfUp)>>
  /\ UNCHANGED <<pipelineVars, correctionVars, ensembleVars, accuracyVars, created,
                 scores, serviceVars>>

\* The same arguments are handed to the engine once more.
InvokeAgain ==
  /\ Len(calls) = 1
  /\ \E elapsed \in 0..MaxElapsedMs :
       calls' = Append(calls,
                       Invocation(calls[1].captures, calls[1].calibration,
                                  calls[1].knownHeight, calls[1].gender, elapsed,
                                  calls[1].roundsUp, calls[1].halfUp))
  /\ UNCHANGED <<pipelineVars, correctionVars, ensembleVars, accuracyVars, created,
                 scores, serviceVars>>

NextRepeat == Invoke \/ InvokeAgain

SpecRepeat == Init /\ [][NextRepeat]_vars
-----------------------------------------------------------------------------
(* ensembleAverage over many repeated scans (SpecRescan) *)

MaxRescans == 9

\* Repeated scans of one person: chest 94 cm at full confidence and chest
\* 94.25 cm without a confidence for it.
RescanTemplates == {MockResult(9400, 100), MockResult(9425, 0)}

AddRescan ==
  /\ ensemble.status = "none"
  /\ Len(results) < MaxRescans
  /\ \E r \in RescanTemplates : results' = Append(results, r)
  /\ UNCHANGED <<pipelineVars, correctionVars, ensemble, accuracyVars, created, scores, calls, serviceVars>>

NextRescan == AddRescan \/ EnsembleAverage

SpecRescan == Init /\ [][NextRescan]_vars

-----------------------------------------------------------------------------
(* ensembleAverage over results of the engine itself (SpecEngineScans) *)

\* A measurement of the engine, in tenths of a cm, as ensembleAverage reads
\* it: the same number, here in hundredths.
AsEnsembleValue(num) ==
  IF IsFin(num) THEN 10 * num.v
  ELSE IF num = PosInf THEN Infinity
  ELSE IF num = NaN THEN NotANumber
  ELSE -Infinity

\* A MeasurementResult of the engine as ensembleAverage reads it.
AsEnsembleInput(r) ==
  [measurements |-> [k \in MeasurementKeys |-> AsEnsembleValue(r.measurements[k])],
   confidence |-> r.confidence,
   overallAccuracy |-> r.overallAccuracy,
   warnings |-> r.warnings,
   metadata |-> r.metadata]

\* The MeasurementResult of one call of calculateFromMultiAngle for a front
\* capture alone, uncalibrated, of a male subject.
EngineResult(front, conf) ==
  CHOOSE e \in {AsEnsembleInput(r) :
                  r \in {calculateFromMultiAngle(caps, None, None, "male", 0,
                                                 FALSE, FALSE).result :
                          caps \in {ScanCaptures(front, Absent, FALSE, conf)}}} : TRUE

MaxEngineScans == 3

\* Scans to average: a result of the tests, one without a chest value, and
\* the engine's results for a standing and for a collapsed front capture.
EngineScanTemplates ==
  {MockResult(9400, 80), MockResult(0, 60),
   EngineResult("standing", 90), EngineResult("collapsed", 90)}

AddEngineResult ==
  /\ ensemble.status = "none"
  /\ Len(results) < MaxEngineScans
  /\ \E r \in EngineScanTemplates : results' = Append(results, r)
  /\ UNCHANGED <<pipelineVars, correctionVars, ensemble, accuracyVars, created, scores, calls, serviceVars>>

NextEngineScans == AddEngineResult \/ EnsembleAverage

SpecEngineScans == Init /\ [][NextEngineScans]_vars

-----------------------------------------------------------------------------
(* detectOutlier over a history of repeated scans (SpecSteadyHistory) *)

\* Stored scans of one person whose chest came out the same each time: 95.4
\* cm or 95 cm; the waist is 80 cm in all of them.
SteadyScans == {StoredScan(954, 800), StoredScan(950, 800)}

\* New measurements handed to detectOutlier: the scan once more, and one
\* with the chest half a centimetre larger.
SteadyNewMeasurements ==
  {[height |-> 1750, chest |-> 954, waist |-> 800],
   [height |-> 1750, chest |-> 959, waist |-> 800],
   [height |-> 1751, chest |-> 950, waist |-> 801]}

SaveSteadyMeasurement ==
  /\ detection.status = "none"
  /\ Len(history) < MaxHistory
  /\ \E m \in SteadyScans : history' = Append(history, m)
  /\ UNCHANGED <<pipelineVars, correctionVars, ensembleVars, detection, report,
                 created, scores, calls, serviceVars>>

DetectSteadyOutlier ==
  /\ detection.status = "none"
  /\ \E newMeasurement \in SteadyNewMeasurements, twiceThreshold \in TwiceThresholds :
       \E roundsUp \in DetectionRoundings(newMeasurement, history, twiceThreshold) :
         detection' = [status |-> "ok",
                       newMeasurement |-> newMeasurement,
                       twiceThreshold |-> twiceThreshold,
                       roundsUp |-> roundsUp,
                       result |-> detectOutlier(newMeasurement, history,
                                                twiceThreshold, roundsUp)]
  /\ UNCHANGED <<pipelineVars, correctionVars, ensembleVars, history, report,
                 created, scores, calls, serviceVars>>

NextSteadyHistory == SaveSteadyMeasurement \/ DetectSteadyOutlier

SpecSteadyHistory == Init /\ [][NextSteadyHistory]_vars

-----------------------------------------------------------------------------
(* A calibration of the service handed to the engine (SpecCalibratedScan) *)

\* Heights the calibration screen accepts (50 to 250 cm), in thousandths of
\* a cm, and detected body heights in hundredths of a pixel; the screen
\* itself passes 0 pixels.
EnteredHeights == {50000, 160000, 175000, 182500, 250000}
DetectedBodyHeights == {0, 60000, 118016, 120000}

CreateHeightCalibration ==
  /\ created.status = "none"
  /\ \E knownHeightCm \in EnteredHeights, detectedHeightPixels \in DetectedBodyHeights :
       created' = [status |-> "ok", roundsUp |-> FALSE,
                   result |-> createHeightCalibration(knownHeightCm, detectedHeightPixels)]
  /\ UNCHANGED <<pipelineVars, correctionVars, ensembleVars, accuracyVars, scores, calls,
                 serviceVars>>

\* The scan screen runs the engine with the reference of the calibration.
CalculateWithCalibration ==
  /\ created.status = "ok"
  /\ outcome.status = "none"
  /\ \E front \in {"standing", "wide"},
        calib \in {Some(created.result.reference)},
        known \in KnownHeights :
       /\ captures' = ScanCaptures(front, Absent, FALSE, 90)
       /\ calibration' = calib
       /\ knownHeight' = known
       /\ gender' = "male"
       /\ \E halfUp \in HalfRoundings(captures') :
            outcome' = calculateFromMultiAngle(captures', calib, known, "male", 0,
                                               FALSE, halfUp)
  /\ UNCHANGED <<correctionVars, ensembleVars, accuracyVars, created, scores, calls,
                 serviceVars>>

NextCalibratedScan == CreateCalibration \/ CreateHeightCalibration \/ CalculateWithCalibration

SpecCalibratedScan == Init /\ [][NextCalibratedScan]_vars

-----------------------------------------------------------------------------
(* ellipseCircumference as calculateCircumferences calls it (SpecEllipse) *)

\* Front widths and side depths in hundredths of a cm, from 0.1 mm to 1 m;
\* 38 cm by 20 cm is a chest.
EllipseExtents == {1, 2, 5, 10, 38, 50, 500, 1000, 2000, 3000, 4000, 10000}

EllipseCircumference ==
  /\ \E frontWidth \in EllipseExtents, sideDepth \in EllipseExtents :
       ellipse' = [status |-> "ok", frontWidth |-> frontWidth, sideDepth |-> sideDepth,
                   value |-> ellipseCircumference(Fin(frontWidth), Fin(sideDepth))]
  /\ UNCHANGED <<pipelineVars, correctionVars, ensembleVars, accuracyVars, created, scores,
                 calls, poseVars, storeVars>>

NextEllipse == EllipseCircumference

SpecEllipse == Init /\ [][NextEllipse]_vars

-----------------------------------------------------------------------------
(* PoseProcessor.processImage and its availability flag (SpecPose) *)
(* processImage is async: each action below is the code between two        *)
(* awaits.  processor.failedSinceUpdate and processor.failedLast are       *)
(* history: a cloud attempt failed since the last updateConfig, and the    *)
(* last thing that wrote isCloudAvailable was a failed cloud attempt.      *)

MaxPoseCalls == 2

\* `this.cloudConfig.apiKey && this.isCloudAvailable !== false`
CloudIsTried(apiKey, isCloudAvailable) == apiKey /\ isCloudAvailable # "false"

\* A processor that leaves the flag as it was when the cloud fails.
AvailabilityAfterFailureKept(isCloudAvailable) == isCloudAvailable
\* catch (error) { this.isCloudAvailable = false; }
AvailabilityAfterFailure(isCloudAvailable) == "false"

\* processImage up to its first await.
ProcessImage ==
  /\ Len(poseCalls) < MaxPoseCalls
  /\ LET first == IF CloudIsTried(processor.apiKey, processor.isCloudAvailable)
                  THEN "cloud" ELSE "on_device"
     IN poseCalls' = Append(poseCalls,
                            [pc |-> first, tried |-> <<first>>, result |-> None,
                             apiKey |-> processor.apiKey,
                             isCloudAvailable |-> processor.isCloudAvailable,
                             afterFailure |-> processor.failedSinceUpdate,
                             whileFailed |-> processor.failedLast])
  /\ UNCHANGED <<pipelineVars, correctionVars, ensembleVars, accuracyVars, created, scores,
                 calls, ellipse, processor, storeVars>>

\* processWithCloud resolved: the flag is set and the cloud result returned.
CloudResolves ==
  /\ \E i \in DOMAIN poseCalls :
       /\ poseCalls[i].pc = "cloud"
       /\ poseCalls' = [poseCalls EXCEPT ![i].pc = "done", ![i].result = Some("cloud")]
  /\ processor' = [processor EXCEPT !.isCloudAvailable = "true", !.failedLast = FALSE]
  /\ UNCHANGED <<pipelineVars, correctionVars, ensembleVars, accuracyVars, created, scores,
                 calls, ellipse, storeVars>>

\* processWithCloud rejected (unreadable file, HTTP error, timeout, no
\* landmarks): the flag is cleared and processOnDevice is called.
CloudRejects ==
  /\ \E i \in DOMAIN poseCalls :
       /\ poseCalls[i].pc = "cloud"
       /\ poseCalls' = [poseCalls EXCEPT ![i].pc = "on_device",
                                         ![i].tried = Append(@, "on_device")]
  /\ processor' = [processor EXCEPT
                     !.isCloudAvailable = AvailabilityAfterFailure(@),
                     !.failedSinceUpdate = TRUE, !.failedLast = TRUE]
  /\ UNCHANGED <<pipelineVars, correctionVars, ensembleVars, accuracyVars, created, scores,
                 calls, ellipse, storeVars>>

OnDeviceResolves ==
  /\ \E i \in DOMAIN poseCalls :
       /\ poseCalls[i].pc = "on_device"
       /\ poseCalls' = [poseCalls EXCEPT ![i].pc = "done", ![i].result = Some("on_device")]
  /\ UNCHANGED <<pipelineVars, correctionVars, ensembleVars, accuracyVars, created, scores,
                 calls, ellipse, processor, storeVars>>

\* processOnDevice rejected: estimateLandmarksFromImageSize is called and
\* awaits FileSystem.getInfoAsync.
OnDeviceRejects ==
  /\ \E i \in DOMAIN poseCalls :
       /\ poseCalls[i].pc = "on_device"
       /\ poseCalls' = [poseCalls EXCEPT ![i].pc = "fallback",
                                         ![i].tried = Append(@, "fallback")]
  /\ UNCHANGED <<pipelineVars, correctionVars, ensembleVars, accuracyVars, created, scores,
                 calls, ellipse, processor, storeVars>>

\* getInfoAsync resolved or rejected (the rejection is caught): the
\* standard landmarks are returned.
EstimateReturns ==
  /\ \E i \in DOMAIN poseCalls :
       /\ poseCalls[i].pc = "fallback"
       /\ poseCalls' = [poseCalls EXCEPT ![i].pc = "done", ![i].result = Some("fallback")]
  /\ UNCHANGED <<pipelineVars, correctionVars, ensembleVars, accuracyVars, created, scores,
                 calls, ellipse, processor, storeVars>>

\* updateConfig with or without an apiKey in the partial config.
UpdateConfig ==
  /\ \E apiKey \in {processor.apiKey, TRUE, FALSE} :
       processor' = [processor EXCEPT !.apiKey = apiKey, !.isCloudAvailable = "null",
                                      !.failedSinceUpdate = FALSE, !.failedLast = FALSE]
  /\ UNCHANGED <<pipelineVars, correctionVars, ensembleVars, accuracyVars, created, scores,
                 calls, ellipse, poseCalls, storeVars>>

\* checkCloudAvailability up to its fetch of /health.
CheckCloudAvailability ==
  /\ ~processor.checking
  /\ processor' = IF processor.apiKey
                  THEN [processor EXCEPT !.checking = TRUE]
                  ELSE [processor EXCEPT !.isCloudAvailable = "false", !.failedLast = FALSE]
  /\ UNCHANGED <<pipelineVars, correctionVars, ensembleVars, accuracyVars, created, scores,
                 calls, ellipse, poseCalls, storeVars>>

\* The fetch of /health returned (ok or not) or failed.
HealthCheckReturns ==
  /\ processor.checking
  /\ \E ok \in BOOLEAN :
       processor' = [processor EXCEPT !.checking = FALSE,
                                      !.isCloudAvailable = IF ok THEN "true" ELSE "false",
                                      !.failedLast = FALSE]
  /\ UNCHANGED <<pipelineVars, correctionVars, ensembleVars, accuracyVars, created, scores,
                 calls, ellipse, poseCalls, storeVars>>

NextPose ==
  \/ ProcessImage \/ CloudResolves \/ CloudRejects \/ OnDeviceResolves
  \/ OnDeviceRejects \/ EstimateReturns \/ UpdateConfig
  \/ CheckCloudAvailability \/ HealthCheckReturns

SpecPose == Init /\ [][NextPose]_vars

-----------------------------------------------------------------------------
(* useMeasurementStore.addMeasurement (SpecStore) *)
(* addMeasurement is async: AddMeasurement is the code up to the await of  *)
(* AsyncStorage.setItem, WriteResolves the code after it and WriteRejects  *)
(* the catch block.  The writes take effect and settle in the order they   *)
(* were issued.                                                            *)

MaxAdds == 3

\* The measurements of two scans; the id is Date.now() of the call.
ScannedChests == {940, 955}
NewMeasurement(id, chest) == [id |-> id, chest |-> chest]

\* The oldest call whose write has not settled.
PendingWrites == {i \in DOMAIN adds : adds[i].pc = "writing"}
OldestPending == CHOOSE i \in PendingWrites : \A j \in PendingWrites : i <= j

AddMeasurement ==
  /\ Len(adds) < MaxAdds
  /\ \E chest \in ScannedChests :
       LET measurement == NewMeasurement(Len(adds) + 1, chest)
           measurements == Append(store.measurements, measurement)
       IN adds' = Append(adds, [measurement |-> measurement,
                                measurements |-> measurements,
                                pc |-> "writing"])
  /\ store' = [store EXCEPT !.isLoading = TRUE, !.error = None]
  /\ UNCHANGED <<pipelineVars, correctionVars, ensembleVars, accuracyVars, created, scores,
                 calls, ellipse, poseVars, persisted>>

WriteResolves ==
  /\ PendingWrites # {}
  /\ LET call == adds[OldestPending]
     IN /\ persisted' = Some(call.measurements)
        /\ store' = [store EXCEPT !.measurements = call.measurements,
                                  !.currentMeasurement = Some(call.measurement),
                                  !.isLoading = FALSE]
        /\ adds' = [adds EXCEPT ![OldestPending].pc = "done"]
  /\ UNCHANGED <<pipelineVars, correctionVars, ensembleVars, accuracyVars, created, scores,
                 calls, ellipse, poseVars>>

WriteRejects ==
  /\ PendingWrites # {}
  /\ store' = [store EXCEPT !.error = Some("Failed to save measurement"),
                            !.isLoading = FALSE]
  /\ adds' = [adds EXCEPT ![OldestPending].pc = "failed"]
  /\ UNCHANGED <<pipelineVars, correctionVars, ensembleVars, accuracyVars, created, scores,
                 calls, ellipse, poseVars, persisted>>

NextStore == AddMeasurement \/ WriteResolves \/ WriteRejects

SpecStore == Init /\ [][NextStore]_vars

-----------------------------------------------------------------------------
(* Properties of the measurement pipeline (Spec) *)

Called == outcome.status # "none"

FrontCaptures == {i \in DOMAIN captures : captures[i].type = "front"}

\* The capture captures.find(c => c.type === 'front') yields.
TheFront == captures[SetMin(FrontCaptures)]

EstimatedWarned ==
  \E i \in DOMAIN outcome.result.warnings :
    outcome.result.warnings[i] = WarnEstimatedScale

\* C1: a call whose captures hold no capture of type 'front' ends in the error
\* "Front-view capture is required" and returns no result, whatever the
\* calibration reference, the known height and the gender.
C1_NoFrontThrows ==
  (Called /\ FrontCaptures = {})
    => outcome = Threw("Front-view capture is required")

\* A call with a side capture but no front one, with a reference and a known
\* height supplied, has thrown.
C1_Witness ==
  /\ outcome.status = "threw"
  /\ captures # <<>>
  /\ FrontCaptures = {}
  /\ calibration # None
  /\ knownHeight # None

\* 33 named landmarks with normalised coordinates, positive image dimensions.
ValidFront ==
  /\ FrontCaptures # {}
  /\ Len(TheFront.landmarks) = 33
  /\ \A i \in DOMAIN TheFront.landmarks :
       /\ TheFront.landmarks[i].name # ""
       /\ TheFront.landmarks[i].x \in 0..1000
       /\ TheFront.landmarks[i].y \in 0..1000
  /\ TheFront.imageWidth > 0
  /\ TheFront.imageHeight > 0

\* No reference object, or one detected with a positive extent.
UsableReference ==
  calibration = None
    \/ (calibration[1].pixelWidth > 0 /\ calibration[1].realWidthCm > 0)

IsPositive(x) == x.k \in {"fin", "inf"} /\ x.v > 0

\* C2: for every valid front capture, under reference-object, known-height and
\* estimated calibration, the scale factor is strictly positive and the
\* reported height is strictly positive.
C2_PositiveScaleAndHeight ==
  (Called /\ ValidFront /\ UsableReference)
    => /\ outcome.status = "ok"
       /\ outcome.scaleFactor.n > 0
       /\ IsPositive(outcome.result.measurements.height)

\* C3: overallAccuracy of every returned result is within [0, 100].
C3_OverallAccuracyInRange ==
  outcome.status = "ok"
    => /\ IsFin(outcome.result.overallAccuracy)
       /\ outcome.result.overallAccuracy.v \in 0..100

\* C4: every per-measurement confidence of every returned result is within
\* 0..100.
C4_ConfidenceInRange ==
  outcome.status = "ok"
    => \A k \in MeasurementKeys : outcome.result.confidence[k] \in 0..100

\* Every landmark of the front capture sits on one point, or there is none.
CoincidentOrMissing ==
  /\ FrontCaptures # {}
  /\ \A i, j \in DOMAIN TheFront.landmarks :
       /\ TheFront.landmarks[i].x = TheFront.landmarks[j].x
       /\ TheFront.landmarks[i].y = TheFront.landmarks[j].y

\* C8: the scale factor is the reference object's real extent over its pixel
\* extent when a reference is supplied, whatever the known height; else the
\* known height over the front capture's head-to-foot pixel extent when a
\* known height is supplied; else 170 cm over that extent, with the
\* estimated-calibration warning.  (The extent is in ten-thousandths of a
\* pixel, the reference's pixel width in hundredths and its real width in
\* thousandths of a cm.)
C8_ScalePriority ==
  outcome.status = "ok"
    => IF calibration # None
       THEN /\ outcome.scaleFactor =
                 Frac(calibration[1].realWidthCm, calibration[1].pixelWidth * 10)
            /\ ~EstimatedWarned
       ELSE IF knownHeight # None
       THEN /\ outcome.scaleFactor =
                 Frac(knownHeight[1] * 10000, HeadToFootExtent(TheFront))
            /\ (HeadToFootExtent(TheFront) > 0 => ~EstimatedWarned)
       ELSE /\ outcome.scaleFactor =
                 Frac(AverageAdultHeightCm * 10000, HeadToFootExtent(TheFront))
            /\ EstimatedWarned

\* A result computed with both a detected reference object and a known
\* height: the reference decided the scale.
C8_Witness ==
  /\ outcome.status = "ok"
  /\ calibration # None
  /\ knownHeight # None
  /\ outcome.scaleFactor.n > 0
  /\ outcome.scaleFactor.d > 0
  /\ outcome.scaleFactor # Frac(knownHeight[1] * 10000, HeadToFootExtent(TheFront))

\* C9: for a front capture whose landmarks are coincident or missing, the
\* pipeline throws nothing and every measurement is a finite number.
C9_DegenerateGeometryFinite ==
  (Called /\ CoincidentOrMissing)
    => /\ outcome.status = "ok"
       /\ \A k \in MeasurementKeys : IsFin(outcome.result.measurements[k])

-----------------------------------------------------------------------------
(* Properties of ensembleAverage (SpecEnsemble) *)

AgreeingChest == {9400, 9425}
ExtremeChest == {15000, 4000}

\* Four results or more whose chest values agree but for one extreme one.
SingleExtremeOutlier ==
  /\ Len(results) >= 4
  /\ \E i \in DOMAIN results :
       /\ results[i].measurements.chest \in ExtremeChest
       /\ \A j \in DOMAIN results \ {i} :
            results[j].measurements.chest \in AgreeingChest

\* The confidence-weighted mean of the agreeing chest values, rounded to
\* 0.1 cm.
MeanOfAgreeing ==
  LET agrees(r) == r.measurements.chest \in AgreeingChest
      rest == SelectSeq(results, agrees)
  IN 10 * RoundDiv(SumSeq([i \in DOMAIN rest |->
                             rest[i].measurements.chest * rest[i].confidence.chest]),
                   10 * SumSeq([i \in DOMAIN rest |-> rest[i].confidence.chest]))

\* C5: with at least 4 results of which one chest value is an extreme outlier
\* and the others agree, the ensemble chest is the confidence-weighted mean of
\* the others only, and outliersRemoved counts the outlier.
C5_SingleOutlierDiscarded ==
  (ensemble.status = "ok" /\ SingleExtremeOutlier)
    => /\ ensemble.value.measurements.chest = MeanOfAgreeing
       /\ ensemble.value.outliersRemoved = 1

IdenticalCopies ==
  /\ results # <<>>
  /\ \A i \in DOMAIN results : results[i] = results[1]

\* C6 as stated: n >= 1 copies of a result r give measurements equal to
\* r.measurements for every key, scansUsed = n and outliersRemoved = 0, and
\* for n = 1 the confidence of r as well.
C6_IdenticalCopiesUnchanged ==
  (ensemble.status # "none" /\ IdenticalCopies)
    => /\ ensemble.status = "ok"
       /\ ensemble.value.measurements = results[1].measurements
       /\ ensemble.value.scansUsed = Len(results)
       /\ ensemble.value.outliersRemoved = 0
       /\ (Len(results) = 1 => ensemble.value.confidence = results[1].confidence)

\* C6, amended: n copies of r give scansUsed = n and outliersRemoved = 0; one
\* copy passes through unchanged; of two copies or more, every key whose value
\* in r is above 0 comes back rounded to 0.1 cm, and every other key is absent.
C6_IdenticalCopiesRounded ==
  (ensemble.status # "none" /\ IdenticalCopies)
    => /\ ensemble.status = "ok"
       /\ ensemble.value.scansUsed = Len(results)
       /\ ensemble.value.outliersRemoved = 0
       /\ (Len(results) = 1 =>
             /\ ensemble.value.measurements = results[1].measurements
             /\ ensemble.value.confidence = results[1].confidence)
       /\ (Len(results) >= 2 =>
             /\ DOMAIN ensemble.value.measurements =
                  {k \in DOMAIN results[1].measurements :
                     results[1].measurements[k] > 0}
             /\ \A k \in DOMAIN ensemble.value.measurements :
                  ensemble.value.measurements[k] =
                    10 * RoundDiv(results[1].measurements[k], 10))

\* Several copies of a scan that measured no chest have been averaged.
C6_Witness ==
  /\ ensemble.status = "ok"
  /\ IdenticalCopies
  /\ Len(results) >= 2
  /\ results[1].measurements.chest = 0

\* C7: ensembleAverage of an empty list fails with "No results to ensemble"
\* and produces no result.
C7_EmptyListThrows ==
  (ensemble.status # "none" /\ results = <<>>)
    => ensemble = Threw("No results to ensemble")

\* The average of no results has been asked for, and it threw.
C7_Witness ==
  /\ results = <<>>
  /\ ensemble.status = "threw"

-----------------------------------------------------------------------------
(* Properties of applyAnthropometricCorrection (SpecCorrection) *)

RatioKeys == {CheckKeys[i] : i \in DOMAIN CheckKeys}

Measured(k) == corrIn.measurements[k].v
HeightIn == corrIn.measurements.height.v
ExpectedRatio(k) == ANTHROPOMETRIC_RATIOS[corrIn.gender][k]

\* The zScore the code computed is above t: |measured/height - ratio| / stdDev
\* with both sides multiplied by 1000 stdDev height, and the rounding of the
\* double on an exact tie.
ComputedZAbove(k, t) ==
  LET off == Abs(1000 * Measured(k) - ExpectedRatio(k) * HeightIn)
      bound == t * RATIO_STDDEV[k] * HeightIn
  IN off > bound \/ (off = bound /\ corrIn.roundsUp)

\* wm/10 measured + we/10 expected, to 0.1 cm.
Weighted(k, wm, we) ==
  Fin(RoundDiv(1000 * wm * Measured(k) + we * ExpectedRatio(k) * HeightIn, 10000))

Warned(k) ==
  \E i \in DOMAIN corrOut.warnings : corrOut.warnings[i] = WarnOutlier(k)

\* The three tiers for the key k.
Tiered(k) ==
  IF ComputedZAbove(k, 3)
  THEN corrOut.values[k] = Weighted(k, 4, 6) /\ Warned(k)
  ELSE IF ComputedZAbove(k, 2)
  THEN corrOut.values[k] = Weighted(k, 8, 2) /\ ~Warned(k)
  ELSE corrOut.values[k] = corrIn.measurements[k] /\ ~Warned(k)

\* C10 as stated: for every key of the ratio table, zScore > 3 gives
\* 0.4 measured + 0.6 expected and a warning naming the key, 2 < zScore <= 3
\* gives 0.8 measured + 0.2 expected and no warning, zScore <= 2 leaves the
\* value unchanged with no warning (values compared to 0.1 cm).
C10_ZScoreTiers ==
  corrOut.status = "ok" => \A k \in RatioKeys : Tiered(k)

\* C10, amended: the tiers apply to the keys measured above 0 when the height
\* is above 0; every other value is returned unchanged, with no warning.
C10_ZScoreTiersOfMeasured ==
  corrOut.status = "ok"
    => \A k \in RatioKeys :
         IF HeightIn > 0 /\ Measured(k) > 0 THEN Tiered(k)
         ELSE corrOut.values[k] = corrIn.measurements[k] /\ ~Warned(k)

\* A correction has run on a positive height with the circumferences not
\* measured and the lengths exactly three standard deviations off, the
\* computed zScore not above 3: light correction, no warning.
C10_Witness ==
  /\ corrOut.status = "ok"
  /\ HeightIn > 0
  /\ Measured("chest") = 0
  /\ Measured("sleeve") > 0
  /\ Abs(1000 * Measured("sleeve") - ExpectedRatio("sleeve") * HeightIn)
       = 3 * RATIO_STDDEV["sleeve"] * HeightIn
  /\ ~corrIn.roundsUp
  /\ corrOut.values.sleeve = Weighted("sleeve", 8, 2)

-----------------------------------------------------------------------------
(* A second pass of the correction (SpecCorrection) *)

\* The value the first pass returned for k lies strictly less than two
\* standard deviations from the expected ratio of the height (the height is
\* not touched by a pass).
FirstPassZBelowTwo(k) ==
  /\ HeightIn > 0
  /\ corrOut.values[k].k = "fin"
  /\ Abs(1000 * corrOut.values[k].v - ExpectedRatio(k) * HeightIn)
       < 2 * RATIO_STDDEV[k] * HeightIn

WarnedAgain(k) ==
  \E i \in DOMAIN corrAgain.warnings : corrAgain.warnings[i] = WarnOutlier(k)

\* C11: for every key of the ratio table, when the value one pass of the
\* correction produced has a zScore below 2, a second pass with the same
\* height and gender returns that value unchanged and pushes no warning for it.
C11_SecondPassStable ==
  corrAgain.status = "ok"
    => \A k \in RatioKeys :
         FirstPassZBelowTwo(k)
           => corrAgain.values[k] = corrOut.values[k] /\ ~WarnedAgain(k)

\* Both passes ran; the first one moved the chest (it was more than two
\* standard deviations off) to a value less than two off, and the second
\* pass kept it.
C11_Witness ==
  /\ corrAgain.status = "ok"
  /\ corrOut.values.chest # corrIn.measurements.chest
  /\ FirstPassZBelowTwo("chest")
  /\ corrAgain.values.chest = corrOut.values.chest

-----------------------------------------------------------------------------
(* Warnings of the pipeline (Spec) *)

SideCaptures == {i \in DOMAIN captures : captures[i].type = "side"}

NoSideViewWarned ==
  \E i \in DOMAIN outcome.result.warnings :
    outcome.result.warnings[i] = WarnNoSideView

SingleFrontNoCalibration ==
  /\ Len(captures) = 1
  /\ captures[1].type = "front"
  /\ calibration = None
  /\ knownHeight = None

\* The front capture carries the 33 landmarks of a CaptureAngle (named or not).
FullSkeleton ==
  /\ FrontCaptures # {}
  /\ Len(TheFront.landmarks) = Len(FrontLandmarks)

\* C12: a call with a single front capture, no reference, no known height and
\* no side capture returns a result whose warnings hold the estimated-scale
\* notice and the missing-side-view notice; every returned result holds the
\* missing-side-view notice exactly when no side capture was supplied; and
\* no warning aborts a run: every call with a front capture returns its
\* result, whatever the warnings pushed.  Front captures are those with the
\* detector's 33 landmarks.
C12_WarningsNeverAbort ==
  /\ (Called /\ SingleFrontNoCalibration /\ FullSkeleton)
       => outcome.status = "ok" /\ EstimatedWarned /\ NoSideViewWarned
  /\ outcome.status = "ok" => (NoSideViewWarned <=> SideCaptures = {})
  /\ (Called /\ FullSkeleton) => outcome.status = "ok"

\* A single front capture without reference, known height or side capture
\* was measured and the result carries exactly the two notices.
C12_Witness ==
  /\ outcome.status = "ok"
  /\ SingleFrontNoCalibration
  /\ FullSkeleton
  /\ outcome.result.warnings = <<WarnEstimatedScale, WarnNoSideView>>

-----------------------------------------------------------------------------
(* Properties of the confidence scores (SpecConfidence) *)

ScoredTwice == Len(scores) = 2

\* The confidence of the side capture that was added, in hundredths.
AddedSideConfidence ==
  LET c == scores[2].captures[2].confidence IN (100 * c.n) \div c.d

\* The mean confidence of the captures scored without the side capture, same
\* unit (rounded down).
MeanConfidenceBefore ==
  LET s == SumConfidence(scores[1].captures)
  IN (100 * s.n) \div (s.d * Len(scores[1].captures))

-----------------------------------------------------------------------------
(* Properties of detectOutlier (SpecAccuracy) *)

Detected == detection.status = "ok"

NewKeys == DOMAIN detection.newMeasurement

HistoryStatistics(k) == KeyStatistics(HistoricalValues(history, k))

Flagged(k) ==
  \E i \in DOMAIN detection.result.outlierKeys : detection.result.outlierKeys[i] = k

\* The zScore |new - mean| / stdDev of the key k, as the double division
\* yields it, is above the threshold: with the standard deviation 0 it is
\* Infinity for a new value off the mean (above any threshold) and NaN for
\* one on it (above none); an exact tie is decided by the rounding.
ZScoreAboveThreshold(k) ==
  LET st == HistoryStatistics(k)
      off == Abs(st.n * detection.newMeasurement[k] - st.sum)
      lhs == 4 * off * off
      rhs == detection.twiceThreshold * detection.twiceThreshold * st.spread
  IN lhs > rhs \/ (lhs = rhs /\ st.spread > 0 /\ detection.roundsUp)

\* The parts of C14 that do not depend on the standard deviation: a history
\* of fewer than 3 entries reports no outlier, isOutlier is true exactly when
\* some key is flagged, and details holds the zScore, the mean and the new
\* value of exactly the flagged keys.
DetectionShape ==
  /\ Len(history) < 3
       => detection.result = [isOutlier |-> FALSE, outlierKeys |-> <<>>,
                              details |-> <<>>]
  /\ detection.result.isOutlier <=> \E k \in NewKeys : Flagged(k)
  /\ DOMAIN detection.result.details = {k \in NewKeys : Flagged(k)}
  /\ \A k \in DOMAIN detection.result.details :
       LET st == HistoryStatistics(k)
           d == detection.result.details[k]
       IN /\ d.expected.n * st.n = st.sum * d.expected.d
          /\ d.zScore.num = Abs(st.n * detection.newMeasurement[k] - st.sum)
          /\ d.zScore.den2 = st.spread
          /\ d.actual = detection.newMeasurement[k]

-----------------------------------------------------------------------------
(* Properties of analyzeAccuracy (SpecAccuracy) *)

Analyzed == report.status = "ok"

AnalyzedKeys == DOMAIN report.result.measurements

\* The confidence the report works with: result.confidence[key] || 50.
ReportedConfidence(k) == report.report.perMeasurement[k].confidence

Reliability(k) == report.report.perMeasurement[k].reliability

\* At least 2 positive values of the key k are in the history.
HasHistory(k) == HistoryStatistics(k).n >= 2

\* The value of k deviates from the historical mean by more than p percent,
\* the percentage taken as the double arithmetic yields it (measurements in
\* hundredths of a cm, history in tenths).
DeviatesMoreThan(k, p) ==
  LET st == HistoryStatistics(k)
      lhs == 100 * Abs(st.n * report.result.measurements[k] - 10 * st.sum)
      rhs == p * 10 * st.sum
  IN lhs > rhs \/ (lhs = rhs /\ report.roundsUp)

ClassOfConfidence(k) ==
  IF ReportedConfidence(k) >= 85 THEN "high"
  ELSE IF ReportedConfidence(k) >= 70 THEN "medium"
  ELSE "low"

\* C15: reliability is high for a confidence >= 85, medium for >= 70 and
\* < 85, low otherwise; with 2 or more historical values of the key, a
\* deviation of more than 15% from their mean forces low, one of more than
\* 8% up to 15% lowers high to medium and leaves medium and low as they are.
C15_ReliabilityClasses ==
  Analyzed
    => \A k \in AnalyzedKeys :
         /\ ReportedConfidence(k)
              = (IF report.result.confidence[k] = 0 THEN 50
                 ELSE report.result.confidence[k])
         /\ Reliability(k)
              = (IF HasHistory(k) /\ DeviatesMoreThan(k, 15) THEN "low"
                 ELSE IF HasHistory(k) /\ DeviatesMoreThan(k, 8)
                      THEN (IF ClassOfConfidence(k) = "high" THEN "medium"
                            ELSE ClassOfConfidence(k))
                 ELSE ClassOfConfidence(k))

\* A chest of confidence 90 that lies 10.5% above its historical mean was
\* lowered from high to medium, while shoulders (confidence 85, on the mean)
\* stayed high.
C15_Witness ==
  /\ Analyzed
  /\ Len(history) >= 2
  /\ report.result.confidence.chest = 90
  /\ DeviatesMoreThan("chest", 8)
  /\ ~DeviatesMoreThan("chest", 15)
  /\ Reliability("chest") = "medium"
  /\ report.result.confidence.shoulders = 85
  /\ Reliability("shoulders") = "high"

OverallScore == report.report.overallScore

Potential == report.report.improvementPotential

CalibrationWasEstimated ==
  report.result.metadata.calibrationMethod = <<"estimated", "">>

NoSideAngleUsed ==
  \A i \in DOMAIN report.result.metadata.anglesUsed :
    report.result.metadata.anglesUsed[i] # "side"

\* overallScore is the rounded mean of the confidences the report lists.
ScoreIsMeanConfidence ==
  LET total == SumOver([k \in AnalyzedKeys |-> ReportedConfidence(k)], AnalyzedKeys)
      n == Cardinality(AnalyzedKeys)
  IN /\ 2 * n * OverallScore <= 2 * total + n
     /\ 2 * total + n < 2 * n * (OverallScore + 1)

\* The bonuses: +15 where the calibration was estimated, +12 where no side
\* view was used, +5 for more scans, each sum capped at 98; without its
\* condition a potential is overallScore itself.
BonusesCappedAt98 ==
  /\ Potential.withCalibration
       = (IF CalibrationWasEstimated THEN MinOf(98, OverallScore + 15)
          ELSE OverallScore)
  /\ Potential.withSideView
       = (IF NoSideAngleUsed THEN MinOf(98, OverallScore + 12) ELSE OverallScore)
  /\ Potential.withMultipleScans = MinOf(98, OverallScore + 5)

\* C16 as stated: the potentials are overallScore plus the fixed bonuses
\* capped at 98; with an estimated calibration withCalibration is strictly
\* greater than overallScore, with no side angle withSideView is.
C16_PotentialAboveScore ==
  Analyzed
    => /\ ScoreIsMeanConfidence
       /\ BonusesCappedAt98
       /\ CalibrationWasEstimated => Potential.withCalibration > OverallScore
       /\ NoSideAngleUsed => Potential.withSideView > OverallScore

\* C16, amended: the strict gain holds exactly for an overallScore below 98;
\* from 98 on the capped potentials (withMultipleScans too) are 98, equal to
\* or below overallScore.
C16_PotentialAboveScoreBelowCap ==
  Analyzed
    => /\ ScoreIsMeanConfidence
       /\ BonusesCappedAt98
       /\ CalibrationWasEstimated
            => (Potential.withCalibration > OverallScore <=> OverallScore < 98)
       /\ NoSideAngleUsed
            => (Potential.withSideView > OverallScore <=> OverallScore < 98)
       /\ Potential.withMultipleScans > OverallScore <=> OverallScore < 98

\* The mock result of the tests with a chest confidence of 70 (mean
\* confidence 78), an estimated calibration and the front angle only: 93 with
\* calibration, 90 with a side view, 83 with more scans.
C16_Witness ==
  /\ Analyzed
  /\ CalibrationWasEstimated
  /\ NoSideAngleUsed
  /\ OverallScore = 78
  /\ Potential = [withCalibration |-> 93, withSideView |-> 90,
                  withMultipleScans |-> 83]

-----------------------------------------------------------------------------
(* Properties of createCalibration (SpecCalibration) *)

Created == created.status = "ok"

\* Pixels per cm along the width and along the height of the detection.
WidthPpc ==
  Frac(10 * created.result.reference.pixelWidth, created.result.reference.realWidthCm)

HeightPpc ==
  Frac(10 * created.result.reference.pixelHeight, created.result.reference.realHeightCm)

\* |WidthPpc - HeightPpc| / max(WidthPpc, HeightPpc), the relative difference.
Disagreement == AspectRatioError(WidthPpc, HeightPpc)

\* The relative difference as computed is beyond 5%.
BeyondFivePercent ==
  /\ Disagreement.d # 0
  /\ \/ 100 * Disagreement.n > 5 * Disagreement.d
     \/ 100 * Disagreement.n = 5 * Disagreement.d /\ created.roundsUp

FracEq(a, b) == a.n * b.d = b.n * a.d
FracLt(a, b) == a.n * b.d < b.n * a.d

\* C17: the confidence is 0.95 when the width-derived and the height-derived
\* pixels per cm agree within 5% relative difference; beyond 5% it is
\* 0.95 - 2 x the relative difference, not below 0.5, and so lower than that
\* of any correctly proportioned detection; pixelsPerCm is the detected
\* extent over the real extent, averaged over the two axes.
C17_CalibrationConfidence ==
  Created
    => LET c == created.result.confidence
           linear == Frac(95 * Disagreement.d - 200 * Disagreement.n,
                          100 * Disagreement.d)
       IN /\ ~BeyondFivePercent => c = Frac(95, 100)
          /\ BeyondFivePercent
               => /\ IF FracLt(linear, Frac(1, 2)) THEN c = Frac(1, 2)
                     ELSE FracEq(c, linear)
                  /\ FracLt(c, Frac(95, 100))
          /\ ~FracLt(c, Frac(1, 2))
          /\ FracEq(created.result.pixelsPerCm,
                    Frac(WidthPpc.n * HeightPpc.d + HeightPpc.n * WidthPpc.d,
                         2 * WidthPpc.d * HeightPpc.d))

\* A card detected at 200 px/cm along its width and 180 px/cm along its
\* height: 10% apart, confidence 0.75, 190 px/cm.
C17_Witness ==
  /\ Created
  /\ created.result.reference.type = "credit_card"
  /\ WidthPpc = Frac(200, 1)
  /\ HeightPpc = Frac(180, 1)
  /\ created.result.confidence = Frac(75, 100)
  /\ created.result.pixelsPerCm = Frac(190, 1)

-----------------------------------------------------------------------------
(* Determinism of the pipeline (SpecRepeat) *)

InvokedTwice == Len(calls) = 2

SameArguments ==
  /\ calls[1].captures = calls[2].captures
  /\ calls[1].calibration = calls[2].calibration
  /\ calls[1].knownHeight = calls[2].knownHeight
  /\ calls[1].gender = calls[2].gender

\* An outcome with the processing time blanked.
Untimed(o) ==
  IF o.status = "ok" THEN [o EXCEPT !.result.metadata.processingTimeMs = 0] ELSE o

-----------------------------------------------------------------------------
(* Landmark lookups (Spec) *)

\* The captures with the names of the front capture's landmarks restored;
\* for the unnamed posture every point sits at its index of the table.
NamedCaptures ==
  [i \in DOMAIN captures |->
     IF captures[i].type = "front"
     THEN [captures[i] EXCEPT !.landmarks = FrontLandmarks]
     ELSE captures[i]]

\* No run fails because a point is absent.
NoLookupFails ==
  (Called /\ FrontCaptures # {}) => outcome.status = "ok"

\* A front capture without names resolves, by the index table, to the points
\* the named capture resolves to, in the scale calibration too.
UnnamedResolvesByIndex ==
  (outcome.status = "ok" /\ TheFront.landmarks = FrontPostures.unnamed)
    => outcome.scaleFactor
         = computeScaleFactor(NamedCaptures, calibration, knownHeight).scale

\* C19: for any front capture, also one without named points or with an
\* empty landmark list, every lookup of the pipeline, in the scale
\* calibration and in the geometry extraction, resolves by name, else by the
\* index table, else to the centred zero-visibility point, and the run never
\* fails because a point is absent.
C19_LookupsResolveAndNeverFail ==
  NoLookupFails /\ UnnamedResolvesByIndex
-----------------------------------------------------------------------------
(* C20: the weighted mean of the overall accuracy *)

ScoredCalls == {i \in DOMAIN scores : TRUE}
PositiveConfidences(i) == \A k \in MeasurementKeys : scores[i].confidence[k] > 0
ConfidenceSum(i) == SumOver(scores[i].confidence, MeasurementKeys)
ConfidenceSquares(i) ==
  SumOver([k \in MeasurementKeys |-> scores[i].confidence[k] * scores[i].confidence[k]],
          MeasurementKeys)
ConfidenceCount == Cardinality(MeasurementKeys)
\* sum of c*c / sum of c compared with sum of c / n, cross-multiplied.
WeightedAtMostPlain(i) ==
  ConfidenceCount * ConfidenceSquares(i) <= ConfidenceSum(i) * ConfidenceSum(i)
WeightedAtLeastPlain(i) ==
  ConfidenceCount * ConfidenceSquares(i) >= ConfidenceSum(i) * ConfidenceSum(i)
AngleBonusOf(i) == MinOf(5, (Len(scores[i].captures) - 1) * 3)
\* The score a plain mean of the confidences would give.
PlainMeanScore(i) ==
  MinOf(98, RoundDiv(ConfidenceSum(i) + AngleBonusOf(i) * ConfidenceCount,
                     ConfidenceCount))
WeightedMeanScore(i) ==
  MinOf(98, RoundDiv(ConfidenceSquares(i) + AngleBonusOf(i) * ConfidenceSum(i),
                     ConfidenceSum(i)))
BonusAndCap(i) ==
  /\ AngleBonusOf(i) <= 5
  /\ IsFin(scores[i].overallAccuracy)
  /\ scores[i].overallAccuracy.v <= 98
  /\ scores[i].overallAccuracy.v = WeightedMeanScore(i)

-----------------------------------------------------------------------------
(* C21: the confidence of an ensemble *)

Ensembled == ensemble.status = "ok" /\ Len(results) >= 2
EnsembleKeys == DOMAIN ensemble.value.confidence
Retained(k) == IqrFiltered(KeyValues(results, k))
RetainedConfidenceSum(k) ==
  SumSeq([i \in DOMAIN Retained(k) |-> Retained(k)[i].confidence])
\* min(15, sqrt(n) * 5) in thousandths.
RootBonus(n) == MinOf(15000, ISqrt(25000000 * n))
\* mean confidence + bonus, times 1000 n.
MeanPlusBonus(k) ==
  1000 * RetainedConfidenceSum(k) + Len(Retained(k)) * RootBonus(Len(Retained(k)))
AboveRetainedMean(k) ==
  Len(Retained(k)) * ensemble.value.confidence[k] > RetainedConfidenceSum(k)

-----------------------------------------------------------------------------
(* C22: bounds of the ellipse circumference *)

\* Values of the last call in hundredths of a cm.
EllipseCalled == ellipse.status = "ok"
LongerAxis == MaxOf(ellipse.frontWidth, ellipse.sideDepth)
ShorterAxis == MinOf(ellipse.frontWidth, ellipse.sideDepth)
AxisSum == ellipse.frontWidth + ellipse.sideDepth
Circumference == 10 * ellipse.value.v

-----------------------------------------------------------------------------
(* C23: known-height calibration and the height it yields *)

KnownHeightCalibrated ==
  /\ outcome.status = "ok"
  /\ calibration = None
  /\ knownHeight # None
  /\ FrontCaptures # {}
  /\ HeadToFootExtent(TheFront) > 0

\* C23: under known-height calibration with a front capture of non-zero
\* head-to-foot extent, the raw height (in tenths of a cm) equals the known
\* height to 0.1 cm.
C23_HeightIsKnownHeight ==
  KnownHeightCalibrated
    => /\ IsFin(outcome.raw.height)
       /\ Abs(outcome.raw.height.v - 10 * knownHeight[1]) <= 1

-----------------------------------------------------------------------------
(* C24: the order of the detectors *)

StageOrders ==
  {<<"cloud">>, <<"cloud", "on_device">>, <<"cloud", "on_device", "fallback">>,
   <<"on_device">>, <<"on_device", "fallback">>}

\* The stages of a call come in the documented order, the cloud is tried
\* exactly when a key is configured and the flag is not false at the start,
\* and a finished call resolved with the stage tried last.
StagesInPriorityOrder(c) ==
  /\ c.tried \in StageOrders
  /\ (c.tried[1] = "cloud") = (c.apiKey /\ c.isCloudAvailable # "false")
  /\ c.pc \in {"cloud", "on_device", "fallback", "done"}
  /\ (c.pc = "done") = (c.result # None)
  /\ (c.pc = "done" => c.result = Some(c.tried[Len(c.tried)]))
  /\ (c.pc # "done" => c.pc = c.tried[Len(c.tried)])

\* C24: processImage tries cloud (only with a key and a flag that is not
\* false), then on-device, then the estimation; it resolves with the first
\* stage that succeeded and never rejects; after a cloud failure no call
\* tries the cloud until updateConfig has reset the flag.
C24_PriorityOrderUntilUpdateConfig ==
  \A i \in DOMAIN poseCalls :
    /\ StagesInPriorityOrder(poseCalls[i])
    /\ (poseCalls[i].afterFailure => poseCalls[i].tried[1] # "cloud")

\* C24 (amended): as above, but after a cloud failure no call tries the
\* cloud until the flag is written again: by updateConfig, by a
\* checkCloudAvailability that found the server healthy, or by the success
\* of a cloud attempt that was under way.
C24_PriorityOrderUntilFlagRewritten ==
  \A i \in DOMAIN poseCalls :
    /\ StagesInPriorityOrder(poseCalls[i])
    /\ (poseCalls[i].whileFailed => poseCalls[i].tried[1] # "cloud")

\* With a key configured, a call that started after a cloud failure went
\* straight to the on-device detector and resolved with the estimation.
C24_Witness ==
  \E i \in DOMAIN poseCalls :
    /\ poseCalls[i].whileFailed
    /\ poseCalls[i].apiKey
    /\ poseCalls[i].tried = <<"on_device", "fallback">>
    /\ poseCalls[i].result = Some("fallback")

-----------------------------------------------------------------------------
(* C25: what the result says about its calibration *)

MethodIsEstimated == outcome.result.metadata.calibrationMethod = <<"estimated", "">>

\* The scale is the one of the 170 cm fallback, whose branch pushes the
\* estimated-calibration warning.
ScaleFromFallback ==
  /\ EstimatedWarned
  /\ outcome.scaleFactor = Frac(AverageAdultHeightCm * 10000, HeadToFootExtent(TheFront))

\* confidence.shoulders is baseConfidence + 10.
CalibrationBonusApplied ==
  \E halfUp \in HalfRoundings(captures) :
    outcome.result.confidence.shoulders = getBaseConfidence(captures, halfUp) + 10

\* C25: in every returned result calibrationMethod is 'estimated' exactly
\* when the scale came from the 170 cm fallback, that is exactly when the
\* estimated-calibration warning is present, and the +10 calibration bonus
\* is applied exactly when the scale was not estimated.
C25_MethodMatchesScale ==
  outcome.status = "ok"
    => /\ MethodIsEstimated = ScaleFromFallback
       /\ MethodIsEstimated = EstimatedWarned
       /\ CalibrationBonusApplied = ~EstimatedWarned

-----------------------------------------------------------------------------
(* C26: a correction stays between the measured and the expected value *)

\* Measured, expected (height * expectedRatio) and returned value of a key
\* in ten-thousandths of a cm.
MeasuredFine(k) == 1000 * Measured(k)
ExpectedFine(k) == ExpectedRatio(k) * HeightIn
ReturnedFine(k) == 1000 * corrOut.values[k].v

PositiveInput(k) ==
  /\ corrOut.status = "ok"
  /\ IsFin(corrIn.measurements.height) /\ HeightIn > 0
  /\ IsFin(corrIn.measurements[k]) /\ Measured(k) > 0

\* C26: for every key of the ratio table, positive height and positive
\* measured value, the returned value lies between the measured and the
\* expected value (to the rounding of 0.05 cm) and is no further from the
\* expected value than the measured one.
C26_CorrectionBetweenMeasuredAndExpected ==
  \A k \in RatioKeys :
    PositiveInput(k)
    => /\ IsFin(corrOut.values[k])
       /\ ReturnedFine(k) >= MinOf(MeasuredFine(k), ExpectedFine(k)) - 500
       /\ ReturnedFine(k) <= MaxOf(MeasuredFine(k), ExpectedFine(k)) + 500
       /\ Abs(ReturnedFine(k) - ExpectedFine(k))
            <= Abs(MeasuredFine(k) - ExpectedFine(k)) + 500

\* A chest more than three standard deviations above the expected value was
\* pulled to a value strictly between the two.
C26_Witness ==
  /\ PositiveInput("chest")
  /\ ComputedZAbove("chest", 3)
  /\ MeasuredFine("chest") > ExpectedFine("chest")
  /\ ReturnedFine("chest") < MeasuredFine("chest")
  /\ ReturnedFine("chest") > ExpectedFine("chest")

-----------------------------------------------------------------------------
(* C27: the ensemble measurement lies among the input values *)

ConfidencesInRange ==
  \A i \in DOMAIN results :
    \A k \in DOMAIN results[i].confidence : results[i].confidence[k] \in 1..100
PositiveValues(k) ==
  {results[i].measurements[k] : i \in {j \in DOMAIN results : results[j].measurements[k] > 0}}
KeysWithPositiveValue == {k \in DOMAIN results[1].measurements : PositiveValues(k) # {}}
IsFiniteValue(v) == v \notin {Infinity, -Infinity, NotANumber}

\* C27: for two or more results whose confidences all lie in 1..100, every
\* key with a positive value keeps at least one value through the IQR
\* filter, and its ensemble measurement is a finite number between the
\* least and the greatest input value of the key, to 0.1 rounding (0.05 cm).
C27_EnsembleFiniteWithinInputRange ==
  (Ensembled /\ ConfidencesInRange) =>
    \A k \in KeysWithPositiveValue :
      /\ k \in DOMAIN ensemble.value.measurements
      /\ Retained(k) # <<>>
      /\ IsFiniteValue(ensemble.value.measurements[k])
      /\ \E lo \in PositiveValues(k), hi \in PositiveValues(k) :
            /\ lo - 5 <= ensemble.value.measurements[k]
            /\ ensemble.value.measurements[k] <= hi + 5

-----------------------------------------------------------------------------
(* C28: a history without spread *)

SteadyKeys ==
  {k \in NewKeys :
     LET values == HistoricalValues(history, k)
     IN Len(values) >= 3 /\ \A i \in DOMAIN values : values[i] = values[1]}

\* C28: a key whose positive historical values are at least 3 and all equal
\* is never flagged by detectOutlier, whatever the new value and the
\* threshold.
C28_EqualHistoryNeverFlagged ==
  Detected => \A k \in SteadyKeys : ~Flagged(k)

-----------------------------------------------------------------------------
(* C29: the scale of a calibration, in the service and in the engine *)

CalibratedScan ==
  /\ Created
  /\ outcome.status = "ok"
  /\ calibration = Some(created.result.reference)
PositiveCalibrationInputs ==
  /\ created.result.reference.pixelHeight > 0
  /\ created.result.reference.realHeightCm > 0
  /\ created.result.reference.type # "known_height"
       => created.result.reference.pixelWidth > 0

\* C29: the reference of a CalibrationResult made by createCalibration or
\* createHeightCalibration from positive inputs, passed to
\* calculateFromMultiAngle as its calibration, yields a finite positive scale
\* factor equal to 1 / pixelsPerCm of the CalibrationResult.
C29_EngineScaleIsServiceScale ==
  (CalibratedScan /\ PositiveCalibrationInputs)
    => /\ outcome.scaleFactor.d # 0
       /\ outcome.scaleFactor.n > 0
       /\ FracEq(outcome.scaleFactor, FracInv(created.result.pixelsPerCm))

-----------------------------------------------------------------------------
(* C30: two overlapping addMeasurement calls *)

Holds(list, m) == \E i \in DOMAIN list : list[i] = m
BothAddsCompleted ==
  /\ Len(adds) = 2
  /\ adds[1].pc = "done"
  /\ adds[2].pc = "done"

\* C30: once two addMeasurement calls whose writes both succeed have
\* completed, however they interleave, the in-memory list and the persisted
\* list both contain both new measurements, and isLoading is false.
C30_BothMeasurementsKept ==
  BothAddsCompleted
    => /\ \A i \in 1..2 : /\ Holds(store.measurements, adds[i].measurement)
                          /\ IsSome(persisted)
                          /\ Holds(persisted[1], adds[i].measurement)
       /\ ~store.isLoading
=============================================================================
